---- MODULE Spec2Model ----
(***************************************************************************)
(* Model of the Copilot-instructions plugin: the SessionState tracker      *)
(* (src/src/session-state.ts) and the hooks the plugin returns             *)
(* (src/unnamed/part_003, the plugin's index.ts).                          *)
(*                                                                         *)
(* Strings are sequences of atoms.  An atom is a literal chunk of text     *)
(* that the program never splits: a path segment, the path separator "/",  *)
(* the character ">", the literal "<copilot-instruction:" and so on.       *)
(* Concatenation of strings is \o, the empty string is << >>.              *)
(***************************************************************************)
EXTENDS Naturals, Sequences, FiniteSets, TLC

VARIABLES
    injectedPerSession,        \* SessionState.injectedPerSession : Map<sessionID, Set<file>>
    repoInstructionsInjected,  \* SessionState.repoInstructionsInjected : Set<sessionID>
    pendingInstructions,       \* SessionState.pendingInstructions : Map<callID, text>
    projectDir,                \* the plugin's closure constant projectDir
    pathInstructions,          \* the plugin's closure constant pathInstructions
    nextCall,                  \* host: number of tool calls started so far
    calls,                     \* host: started tool calls, callID -> call record
    outputs,                   \* host: output.output of the completed tool calls
    history,                   \* host: per session, the current message list (call ids)
    reverted,                  \* host: per session, the messages hidden by a revert
    stagedSince,               \* observer: per session, files staged since the last scan / compaction
    lastOp                     \* observer: the last operation, its arguments and what it returned

trackerVars == <<injectedPerSession, repoInstructionsInjected, pendingInstructions>>
pluginVars  == <<projectDir, pathInstructions>>
hostVars    == <<nextCall, calls, outputs, history, reverted>>
vars == <<injectedPerSession, repoInstructionsInjected, pendingInstructions,
          projectDir, pathInstructions, nextCall, calls, outputs, history,
          reverted, stagedSince, lastOp>>

(***************************************************************************)
(* Bounds of the model.                                                    *)
(***************************************************************************)
MaxCalls == 2

CallIds == <<"c1", "c2", "c3", "c4", "c5">>
CallIdSet == {CallIds[i] : i \in 1..MaxCalls}
Sessions == {"A", "B"}

(***************************************************************************)
(* Text atoms.                                                             *)
(***************************************************************************)
SLASH == "/"
GT == ">"
OPEN == "<copilot-instruction:"
CLOSE == "</copilot-instruction:"
NL == "\n"
Whitespace == {"\n", " ", "\t"}

(***************************************************************************)
(* node:path basename (posix): trailing separators are dropped, the result *)
(* is what follows the last remaining separator.                           *)
(***************************************************************************)
basename_identity(p) == p

basename(p) ==
    LET nonSlash == {i \in 1..Len(p) : p[i] # SLASH}
    IN  IF nonSlash = {} THEN << >>
        ELSE LET end == CHOOSE i \in nonSlash : \A j \in nonSlash : j <= i
                 before == {i \in 1..end : p[i] = SLASH}
                 start == IF before = {} THEN 1
                          ELSE (CHOOSE i \in before : \A j \in before : j <= i) + 1
             IN  SubSeq(p, start, end)

(***************************************************************************)
(* A JavaScript Set keeps its members in insertion order and holds each    *)
(* member once: it is a sequence without repetition.                       *)
(***************************************************************************)
SetHas(set, x) == \E i \in 1..Len(set) : set[i] = x

SetAdd(set, x) == IF SetHas(set, x) THEN set ELSE Append(set, x)

SetDelete(set, x) == SelectSeq(set, LAMBDA y : y # x)

Members(set) == {set[i] : i \in 1..Len(set)}

(***************************************************************************)
(* SessionState (src/src/session-state.ts).  A Map is a function whose     *)
(* DOMAIN is the set of keys present.  Every operator below takes the      *)
(* field it works on and gives the field's new value (or the returned      *)
(* value, for a query).                                                    *)
(***************************************************************************)
isFileInjected_basename(inj, sessionId, file) ==
    IF sessionId \in DOMAIN inj THEN SetHas(inj[sessionId], basename(file)) ELSE FALSE

isFileInjected(inj, sessionId, file) ==
    IF sessionId \in DOMAIN inj THEN SetHas(inj[sessionId], file) ELSE FALSE

markFileInjected_append(inj, sessionId, file) ==
    IF sessionId \in DOMAIN inj
    THEN [inj EXCEPT ![sessionId] = Append(@, file)]
    ELSE [s \in DOMAIN inj \cup {sessionId} |->
             IF s = sessionId THEN <<file>> ELSE inj[s]]

markFileInjected_noop(inj, sessionId, file) == inj

markFileInjected(inj, sessionId, file) ==
    IF sessionId \in DOMAIN inj
    THEN [inj EXCEPT ![sessionId] = SetAdd(@, file)]
    ELSE [s \in DOMAIN inj \cup {sessionId} |->
             IF s = sessionId THEN SetAdd(<< >>, file) ELSE inj[s]]

clearFileMarker_noop(inj, sessionId, file) == inj

clearFileMarker_allSessions(inj, sessionId, file) ==
    [s \in DOMAIN inj |-> SetDelete(inj[s], file)]

clearFileMarker(inj, sessionId, file) ==
    IF sessionId \in DOMAIN inj
    THEN [inj EXCEPT ![sessionId] = SetDelete(@, file)]
    ELSE inj

getInjectedFiles(inj, sessionId) ==
    IF sessionId \in DOMAIN inj THEN inj[sessionId] ELSE << >>

syncWithMarkers_keepAll(inj, presentMarkers) == inj

syncWithMarkers_inverted(inj, presentMarkers) ==
    [s \in DOMAIN inj |->
        SelectSeq(inj[s], LAMBDA file : basename(file) \notin presentMarkers)]

syncWithMarkers_fullPath(inj, presentMarkers) ==
    [s \in DOMAIN inj |->
        SelectSeq(inj[s], LAMBDA file : file \in presentMarkers)]

syncWithMarkers(inj, presentMarkers) ==
    [s \in DOMAIN inj |->
        SelectSeq(inj[s], LAMBDA file : basename(file) \in presentMarkers)]

hasRepoInstructions(repo, sessionId) == SetHas(repo, sessionId)

markRepoInstructionsInjected_append(repo, sessionId) == Append(repo, sessionId)

markRepoInstructionsInjected(repo, sessionId) == SetAdd(repo, sessionId)

setPending_drop(pend, callId, text) == pend

setPending(pend, callId, text) ==
    [c \in DOMAIN pend \cup {callId} |-> IF c = callId THEN text ELSE pend[c]]

\* What get(callId) returns: present tells a text from undefined.
getPending(pend, callId) ==
    IF callId \in DOMAIN pend
    THEN [present |-> TRUE, text |-> pend[callId]]
    ELSE [present |-> FALSE, text |-> << >>]

consumePending_keep(pend, callId) == pend

consumePending_clear(pend, callId) == << >>

\* The map after consumePending(callId); it returns getPending(pend, callId).
consumePending(pend, callId) ==
    IF getPending(pend, callId).present
    THEN [c \in DOMAIN pend \ {callId} |-> pend[c]]
    ELSE pend

\* The methods class SessionState defines.  Calling any other name on an
\* instance raises a TypeError ("state.<name> is not a function").
SessionStateMethods ==
    {"isFileInjected", "markFileInjected", "clearFileMarker", "getInjectedFiles",
     "syncWithMarkers", "hasRepoInstructions", "markRepoInstructionsInjected",
     "setPending", "getPending", "consumePending"}

(***************************************************************************)
(* The observer's record of the last operation.                            *)
(***************************************************************************)
NoOp ==
    [op |-> "none", kind |-> "", sessionID |-> "", callID |-> "", file |-> << >>,
     markers |-> {}, text |-> << >>, files |-> << >>, flag |-> FALSE,
     threw |-> FALSE, list |-> << >>, log |-> "", input |-> << >>]

Op(name) == [NoOp EXCEPT !.op = name]

(***************************************************************************)
(* The plugin (src/unnamed/part_003).                                      *)
(***************************************************************************)
FILE_TOOLS_withBash == {"read", "edit", "write", "bash"}

FILE_TOOLS == {"read", "edit", "write"}

isAbsolute(p) == Len(p) > 0 /\ p[1] = SLASH

\* The segments of a path: what stands between separators.
RECURSIVE Segments(_)
Segments(p) ==
    IF p = << >> THEN << >>
    ELSE IF p[1] = SLASH THEN Segments(Tail(p))
    ELSE <<p[1]>> \o Segments(Tail(p))

RECURSIVE JoinWith(_, _)
JoinWith(strs, sep) ==
    IF strs = << >> THEN << >>
    ELSE IF Len(strs) = 1 THEN strs[1]
    ELSE strs[1] \o sep \o JoinWith(Tail(strs), sep)

RECURSIVE CommonPrefixLen(_, _)
CommonPrefixLen(a, b) ==
    IF a = << >> \/ b = << >> THEN 0
    ELSE IF a[1] = b[1] THEN 1 + CommonPrefixLen(Tail(a), Tail(b))
    ELSE 0

\* node:path relative(from, to) for two absolute paths: one ".." for each
\* segment of from below the common ancestor, then the rest of to.
relative(from, to) ==
    LET f == Segments(from)
        g == Segments(to)
        n == CommonPrefixLen(f, g)
        ups == [i \in 1..(Len(f) - n) |-> <<"..">>]
        rest == [i \in 1..(Len(g) - n) |-> <<g[n + i]>>]
    IN  JoinWith(ups \o rest, <<SLASH>>)

getRelativePath_asIs(directory, filePath) == filePath

getRelativePath(directory, filePath) ==
    LET normalizedDir ==
            IF Len(directory) > 0 /\ directory[Len(directory)] = SLASH
            THEN SubSeq(directory, 1, Len(directory) - 1)
            ELSE directory
    IN  IF ~isAbsolute(filePath) THEN filePath
        ELSE relative(normalizedDir, filePath)

trimEnd_identity(s) == s

\* String.prototype.trimEnd
RECURSIVE trimEnd(_)
trimEnd(s) ==
    IF s # << >> /\ s[Len(s)] \in Whitespace
    THEN trimEnd(SubSeq(s, 1, Len(s) - 1))
    ELSE s

\* The regular expression /<copilot-instruction:([^>]+)>/g applied from
\* position i on: a match starts at an OPEN that is followed by at least one
\* atom other than ">" and then by ">"; the search resumes after the match.
RECURSIVE MarkersFrom(_, _)
MarkersFrom(text, i) ==
    IF i > Len(text) THEN {}
    ELSE LET closers == {j \in (i + 1)..Len(text) : text[j] = GT}
         IN  IF text[i] = OPEN /\ closers # {}
             THEN LET gt == CHOOSE j \in closers : \A k \in closers : j <= k
                  IN  IF gt > i + 1
                      THEN {SubSeq(text, i + 1, gt - 1)} \cup MarkersFrom(text, gt + 1)
                      ELSE MarkersFrom(text, i + 1)
             ELSE MarkersFrom(text, i + 1)

extractInstructionMarkers(text) == MarkersFrom(text, 1)

(***************************************************************************)
(* The loader's result (src/dist/loader.js): the records of the files in   *)
(* <directory>/.github/instructions.  The glob library behind a record's   *)
(* matcher is modelled on the patterns and paths of this model only.       *)
(***************************************************************************)
TsNames == {"a.ts", "b.ts", "x.ts"}

picomatch(pattern, p) ==
    /\ p # << >>
    /\ \A i \in 1..Len(p) : p[i] # ".."
    /\ ~isAbsolute(p)
    /\ CASE pattern = "**/*.ts" -> p[Len(p)] \in TsNames
         [] pattern = "src/**/*" -> Len(p) >= 3 /\ p[1] = "src" /\ p[2] = SLASH
                                    /\ p[Len(p)] # SLASH
         [] OTHER -> FALSE

\* createMatcher(patterns): true iff the path matches any of the patterns
matcher(instruction, p) ==
    \E i \in 1..Len(instruction.applyTo) : picomatch(instruction.applyTo[i], p)

\* path.join(directory, '.github', 'instructions')
instructionsDir(directory) ==
    (IF isAbsolute(directory) THEN <<SLASH>> ELSE << >>)
    \o JoinWith([i \in 1..Len(Segments(directory)) |-> <<Segments(directory)[i]>>]
                    \o << <<".github">>, <<"instructions">> >>, <<SLASH>>)

PathInstruction(directory, filename, patterns, body) ==
    [file |-> instructionsDir(directory) \o <<SLASH>> \o filename,
     applyTo |-> patterns,
     content |-> body]

loadPathInstructions(directory) ==
    << PathInstruction(directory, <<"ts.instructions.md">>, <<"**/*.ts">>,
                       <<"Use strict types.", NL>>),
       PathInstruction(directory, <<"src.instructions.md">>, <<"src/**/*">>,
                       <<"Keep modules small.">>) >>

\* The block emitted for one record
FormatInstruction(i) ==
    LET filename == basename(i.file)
        patterns == JoinWith([k \in 1..Len(i.applyTo) |-> <<i.applyTo[k]>>], <<", ">>)
    IN  <<OPEN>> \o filename \o <<GT, NL, "## Path-Specific Instructions (applies to: ">>
        \o patterns \o <<")", NL, NL>> \o trimEnd(i.content)
        \o <<NL, CLOSE>> \o filename \o <<GT>>

(***************************************************************************)
(* The state after the plugin function returned its hooks.                 *)
(***************************************************************************)
ProjectDirs == { <<SLASH, "p", SLASH>> }

Init ==
    /\ injectedPerSession = << >>
    /\ repoInstructionsInjected = << >>
    /\ pendingInstructions = << >>
    /\ projectDir \in ProjectDirs
    /\ pathInstructions = loadPathInstructions(projectDir)
    /\ nextCall = 0
    /\ calls = << >>
    /\ outputs = << >>
    /\ history = [s \in Sessions |-> << >>]
    /\ reverted = [s \in Sessions |-> << >>]
    /\ stagedSince = [s \in Sessions |-> {}]
    /\ lastOp = NoOp

(***************************************************************************)
(* tool.execute.before                                                     *)
(***************************************************************************)
\* The values args.filePath takes: a string, or something that is no string.
FilePathArgs ==
    { [type |-> "string", val |-> <<"src", SLASH, "a.ts">>],
      [type |-> "string", val |-> <<SLASH, "p", SLASH, "src", SLASH, "b.ts">>],
      [type |-> "string", val |-> <<"lib", SLASH, "x.ts">>],
      [type |-> "string", val |-> <<"README.md">>],
      [type |-> "string", val |-> << >>],
      [type |-> "undefined", val |-> << >>] }

Tools == {"read", "edit", "bash"}

\* The loop over pathInstructions from index i on: the ledger it leaves and
\* the records it collected in matchingInstructions.
RECURSIVE MatchLoop_noMatcher(_, _, _, _, _)
MatchLoop_noMatcher(i, inj, matching, sessionID, relativePath) ==
    IF i > Len(pathInstructions) THEN [inj |-> inj, matching |-> matching]
    ELSE LET instruction == pathInstructions[i]
         IN  IF isFileInjected(inj, sessionID, instruction.file)
             THEN MatchLoop_noMatcher(i + 1, inj, matching, sessionID, relativePath)
             ELSE MatchLoop_noMatcher(i + 1,
                      markFileInjected(inj, sessionID, instruction.file),
                      Append(matching, instruction), sessionID, relativePath)

RECURSIVE MatchLoop(_, _, _, _, _)
MatchLoop(i, inj, matching, sessionID, relativePath) ==
    IF i > Len(pathInstructions) THEN [inj |-> inj, matching |-> matching]
    ELSE LET instruction == pathInstructions[i]
         IN  IF isFileInjected(inj, sessionID, instruction.file)
             THEN MatchLoop(i + 1, inj, matching, sessionID, relativePath)
             ELSE IF matcher(instruction, relativePath)
             THEN MatchLoop(i + 1, markFileInjected(inj, sessionID, instruction.file),
                            Append(matching, instruction), sessionID, relativePath)
             ELSE MatchLoop(i + 1, inj, matching, sessionID, relativePath)

InstructionText_firstOnly(matching) == FormatInstruction(matching[1])

InstructionText(matching) ==
    JoinWith([k \in 1..Len(matching) |-> FormatInstruction(matching[k])], <<NL, NL>>)

\* The host starts a tool call: a new call id, a tool part in the session's
\* message list; the messages a revert had hidden are dropped.
HostStartsCall(sessionID, callID) ==
    /\ nextCall' = nextCall + 1
    /\ calls' = [c \in DOMAIN calls \cup {callID} |->
                    IF c = callID THEN [sessionID |-> sessionID, status |-> "running"]
                    ELSE calls[c]]
    /\ history' = [history EXCEPT ![sessionID] = Append(@, callID)]
    /\ reverted' = [reverted EXCEPT ![sessionID] = << >>]
    /\ UNCHANGED outputs

ToolExecuteBefore(sessionID, tool, filePath) ==
    /\ nextCall < MaxCalls
    /\ LET callID == CallIds[nextCall + 1] IN
       /\ HostStartsCall(sessionID, callID)
       /\ IF tool \notin FILE_TOOLS
             \/ ~(filePath.type = "string" /\ filePath.val # << >>)
          THEN /\ UNCHANGED <<trackerVars, stagedSince>>
               /\ lastOp' = [Op("tool.execute.before") EXCEPT
                                !.kind = tool, !.sessionID = sessionID,
                                !.callID = callID]
          ELSE LET relativePath == getRelativePath(projectDir, filePath.val)
                   loop == MatchLoop(1, injectedPerSession, << >>, sessionID, relativePath)
                   staged == Len(loop.matching) > 0
                   instructionText == InstructionText(loop.matching)
               IN  /\ injectedPerSession' = loop.inj
                   /\ pendingInstructions' =
                          IF staged
                          THEN setPending(pendingInstructions, callID, instructionText)
                          ELSE pendingInstructions
                   /\ UNCHANGED repoInstructionsInjected
                   /\ stagedSince' = [stagedSince EXCEPT ![sessionID] =
                          @ \cup {loop.matching[k].file : k \in 1..Len(loop.matching)}]
                   /\ lastOp' = [Op("tool.execute.before") EXCEPT
                                    !.kind = tool, !.sessionID = sessionID,
                                    !.callID = callID, !.file = relativePath,
                                    !.files = [k \in 1..Len(loop.matching) |->
                                                  loop.matching[k].file],
                                    !.text = IF staged THEN instructionText ELSE << >>,
                                    !.flag = staged]
    /\ UNCHANGED pluginVars

(***************************************************************************)
(* tool.execute.after                                                      *)
(***************************************************************************)
\* The tool's own output, before the hook sees it.
OwnOutput(callID) == <<"output of ", callID>>

AfterOutput_noBlankLine(own, pending) ==
    IF pending.present /\ pending.text # << >>
    THEN own \o <<NL>> \o pending.text
    ELSE own

\* output.output as the hook leaves it
AfterOutput(own, pending) ==
    IF pending.present /\ pending.text # << >>
    THEN own \o <<NL, NL>> \o pending.text
    ELSE own

ToolExecuteAfter(callID) ==
    /\ callID \in DOMAIN calls
    /\ calls[callID].status = "running"
    /\ LET instructionText == getPending(pendingInstructions, callID)
           out == AfterOutput(OwnOutput(callID), instructionText)
       IN  /\ pendingInstructions' = consumePending(pendingInstructions, callID)
           /\ outputs' = [c \in DOMAIN outputs \cup {callID} |->
                             IF c = callID THEN out ELSE outputs[c]]
           /\ lastOp' = [Op("tool.execute.after") EXCEPT
                            !.sessionID = calls[callID].sessionID,
                            !.callID = callID,
                            !.text = instructionText.text,
                            !.flag = instructionText.present /\ instructionText.text # << >>]
    /\ calls' = [calls EXCEPT ![callID].status = "completed"]
    /\ UNCHANGED <<injectedPerSession, repoInstructionsInjected, pluginVars,
                   nextCall, history, reverted, stagedSince>>

\* The tool raises: the host records the error and never calls tool.execute.after.
ToolFails(callID) ==
    /\ callID \in DOMAIN calls
    /\ calls[callID].status = "running"
    /\ calls' = [calls EXCEPT ![callID].status = "error"]
    /\ lastOp' = [Op("tool.error") EXCEPT !.sessionID = calls[callID].sessionID,
                                          !.callID = callID]
    /\ UNCHANGED <<trackerVars, pluginVars, nextCall, outputs, history, reverted,
                   stagedSince>>

(***************************************************************************)
(* experimental.chat.messages.transform                                    *)
(***************************************************************************)
Running(sessionID) ==
    {c \in DOMAIN calls : calls[c].sessionID = sessionID /\ calls[c].status = "running"}

\* The tool part the host keeps for a call: only a completed call has output.
ToolPart(callID) ==
    IF calls[callID].status = "completed"
    THEN [type |-> "tool", hasOutput |-> TRUE, output |-> outputs[callID], text |-> << >>]
    ELSE [type |-> "tool", hasOutput |-> FALSE, output |-> << >>, text |-> << >>]

\* A text part: what the assistant wrote; it may quote an opening tag.
TextPart ==
    [type |-> "text", hasOutput |-> FALSE, output |-> << >>,
     text |-> <<"as ", OPEN, "ts.instructions.md", GT, " says">>]

\* The message list the host hands to the hook for a session: one assistant
\* message per tool call of the current history, a text part and the tool part.
Messages(sessionID) ==
    [i \in 1..Len(history[sessionID]) |->
        [parts |-> << TextPart, ToolPart(history[sessionID][i]) >>]]

PartMarkers_anyPart(part) == extractInstructionMarkers(part.output \o part.text)

PartMarkers(part) ==
    IF part.type = "tool" /\ part.hasOutput /\ part.output # << >>
    THEN extractInstructionMarkers(part.output)
    ELSE {}

PresentMarkers(messages) ==
    UNION { PartMarkers(messages[i].parts[j]) :
              i \in 1..Len(messages), j \in 1..2 }

MessagesTransform_dropsPending(sessionID) ==
    /\ Running(sessionID) = {}
    /\ LET presentMarkers == PresentMarkers(Messages(sessionID))
       IN  /\ injectedPerSession' = syncWithMarkers(injectedPerSession, presentMarkers)
           /\ lastOp' = [Op("experimental.chat.messages.transform") EXCEPT
                            !.sessionID = sessionID, !.markers = presentMarkers]
    /\ stagedSince' = [s \in Sessions |-> {}]
    /\ pendingInstructions' = << >>
    /\ UNCHANGED <<repoInstructionsInjected, pluginVars, hostVars>>

MessagesTransform(sessionID) ==
    /\ Running(sessionID) = {}
    /\ LET presentMarkers == PresentMarkers(Messages(sessionID))
       IN  /\ injectedPerSession' = syncWithMarkers(injectedPerSession, presentMarkers)
           /\ lastOp' = [Op("experimental.chat.messages.transform") EXCEPT
                            !.sessionID = sessionID, !.markers = presentMarkers]
    /\ stagedSince' = [s \in Sessions |-> {}]
    /\ UNCHANGED <<repoInstructionsInjected, pendingInstructions, pluginVars, hostVars>>

(***************************************************************************)
(* event                                                                   *)
(***************************************************************************)
EventTypes == {"session.compacted", "session.idle"}

isSessionCompactedEvent(type) == type = "session.compacted"

\* state.clearSession(sessionId) as the hook calls it: SessionState defines no
\* such method, so the call raises and the tracker is left as it was.
clearSession(threw) ==
    /\ threw = ("clearSession" \notin SessionStateMethods)
    /\ threw
    /\ UNCHANGED trackerVars

\* The host has compacted the session (its message list starts afresh) and
\* publishes session.compacted; other events reach the hook at any time.
Event(type, sessionID) ==
    /\ Running(sessionID) = {}
    /\ IF isSessionCompactedEvent(type)
       THEN /\ history' = [history EXCEPT ![sessionID] = << >>]
            /\ reverted' = [reverted EXCEPT ![sessionID] = << >>]
            /\ stagedSince' = [stagedSince EXCEPT ![sessionID] = {}]
            /\ \E threw \in BOOLEAN :
                  /\ clearSession(threw)
                  /\ lastOp' = [Op("event") EXCEPT !.kind = type,
                                   !.sessionID = sessionID, !.threw = threw]
       ELSE /\ UNCHANGED <<trackerVars, history, reverted, stagedSince>>
            /\ lastOp' = [Op("event") EXCEPT !.kind = type, !.sessionID = sessionID]
    /\ UNCHANGED <<pluginVars, nextCall, calls, outputs>>

(***************************************************************************)
(* The host's history edits (session.revert / session.unrevert).           *)
(***************************************************************************)
Revert(sessionID, i) ==
    /\ Running(sessionID) = {}
    /\ reverted[sessionID] = << >>
    /\ i \in 1..Len(history[sessionID])
    /\ history' = [history EXCEPT ![sessionID] = SubSeq(@, 1, i - 1)]
    /\ reverted' = [reverted EXCEPT ![sessionID] =
                       SubSeq(history[sessionID], i, Len(history[sessionID]))]
    /\ lastOp' = [Op("session.revert") EXCEPT !.sessionID = sessionID]
    /\ UNCHANGED <<trackerVars, pluginVars, nextCall, calls, outputs, stagedSince>>

Unrevert(sessionID) ==
    /\ Running(sessionID) = {}
    /\ reverted[sessionID] # << >>
    /\ history' = [history EXCEPT ![sessionID] = @ \o reverted[sessionID]]
    /\ reverted' = [reverted EXCEPT ![sessionID] = << >>]
    /\ lastOp' = [Op("session.unrevert") EXCEPT !.sessionID = sessionID]
    /\ UNCHANGED <<trackerVars, pluginVars, nextCall, calls, outputs, stagedSince>>

Next ==
    \/ \E s \in Sessions, tool \in Tools, fp \in FilePathArgs :
          ToolExecuteBefore(s, tool, fp)
    \/ \E c \in CallIdSet : ToolExecuteAfter(c)
    \/ \E c \in CallIdSet : ToolFails(c)
    \/ \E s \in Sessions : MessagesTransform(s)
    \/ \E type \in EventTypes, s \in Sessions : Event(type, s)
    \/ \E s \in Sessions, i \in 1..MaxCalls : Revert(s, i)
    \/ \E s \in Sessions : Unrevert(s)

Spec == Init /\ [][Next]_vars

\* The same program with one session only: every hook and every history edit
\* is session A's.
SingleNext ==
    \/ \E tool \in Tools, fp \in FilePathArgs : ToolExecuteBefore("A", tool, fp)
    \/ \E c \in CallIdSet : ToolExecuteAfter(c)
    \/ \E c \in CallIdSet : ToolFails(c)
    \/ MessagesTransform("A")
    \/ \E type \in EventTypes : Event(type, "A")
    \/ \E i \in 1..MaxCalls : Revert("A", i)
    \/ Unrevert("A")

SpecSingle == Init /\ [][SingleNext]_vars

(***************************************************************************)
(* The tracker on its own: any caller, any keys (as its unit tests drive   *)
(* it).  Each action is one method call on the SessionState instance.      *)
(***************************************************************************)
TrackerFiles == { <<SLASH, "a", SLASH, "x.md">>, <<SLASH, "b", SLASH, "y.md">> }

TrackerMarkers == { <<"x.md">>, <<"y.md">>, <<SLASH, "a", SLASH, "x.md">> }

TrackerCalls == {"c1", "c2"}

TrackerTexts == { <<"T1">>, <<"T2">> }

hostUnchanged == UNCHANGED <<pluginVars, hostVars, stagedSince>>

CallIsFileInjected(s, f) ==
    /\ lastOp' = [Op("isFileInjected") EXCEPT !.sessionID = s, !.file = f,
                     !.flag = isFileInjected(injectedPerSession, s, f)]
    /\ UNCHANGED trackerVars /\ hostUnchanged

CallMarkFileInjected(s, f) ==
    /\ injectedPerSession' = markFileInjected(injectedPerSession, s, f)
    \* flag: the key was already recorded when the call was made
    /\ lastOp' = [Op("markFileInjected") EXCEPT !.sessionID = s, !.file = f,
                     !.flag = isFileInjected(injectedPerSession, s, f)]
    /\ UNCHANGED <<repoInstructionsInjected, pendingInstructions>> /\ hostUnchanged

CallClearFileMarker(s, f) ==
    /\ injectedPerSession' = clearFileMarker(injectedPerSession, s, f)
    \* flag: the key was recorded when the call was made
    /\ lastOp' = [Op("clearFileMarker") EXCEPT !.sessionID = s, !.file = f,
                     !.flag = isFileInjected(injectedPerSession, s, f)]
    /\ UNCHANGED <<repoInstructionsInjected, pendingInstructions>> /\ hostUnchanged

CallGetInjectedFiles(s) ==
    /\ lastOp' = [Op("getInjectedFiles") EXCEPT !.sessionID = s,
                     !.files = getInjectedFiles(injectedPerSession, s)]
    /\ UNCHANGED trackerVars /\ hostUnchanged

CallSyncWithMarkers(presentMarkers) ==
    /\ injectedPerSession' = syncWithMarkers(injectedPerSession, presentMarkers)
    \* flag: the call evicted something
    /\ lastOp' = [Op("syncWithMarkers") EXCEPT !.markers = presentMarkers,
                     !.flag = (injectedPerSession' # injectedPerSession)]
    /\ UNCHANGED <<repoInstructionsInjected, pendingInstructions>> /\ hostUnchanged

CallHasRepoInstructions(s) ==
    /\ lastOp' = [Op("hasRepoInstructions") EXCEPT !.sessionID = s,
                     !.flag = hasRepoInstructions(repoInstructionsInjected, s)]
    /\ UNCHANGED trackerVars /\ hostUnchanged

CallMarkRepoInstructionsInjected(s) ==
    /\ repoInstructionsInjected' =
           markRepoInstructionsInjected(repoInstructionsInjected, s)
    \* flag: the session was already marked when the call was made
    /\ lastOp' = [Op("markRepoInstructionsInjected") EXCEPT !.sessionID = s,
                     !.flag = hasRepoInstructions(repoInstructionsInjected, s)]
    /\ UNCHANGED <<injectedPerSession, pendingInstructions>> /\ hostUnchanged

CallSetPending(c, text) ==
    /\ pendingInstructions' = setPending(pendingInstructions, c, text)
    /\ lastOp' = [Op("setPending") EXCEPT !.callID = c, !.text = text]
    /\ UNCHANGED <<injectedPerSession, repoInstructionsInjected>> /\ hostUnchanged

CallGetPending(c) ==
    /\ lastOp' = [Op("getPending") EXCEPT !.callID = c,
                     !.text = getPending(pendingInstructions, c).text,
                     !.flag = getPending(pendingInstructions, c).present]
    /\ UNCHANGED trackerVars /\ hostUnchanged

CallConsumePending(c) ==
    /\ pendingInstructions' = consumePending(pendingInstructions, c)
    /\ lastOp' = [Op("consumePending") EXCEPT !.callID = c,
                     !.text = getPending(pendingInstructions, c).text,
                     !.flag = getPending(pendingInstructions, c).present]
    /\ UNCHANGED <<injectedPerSession, repoInstructionsInjected>> /\ hostUnchanged

CallClearSession(s) ==
    /\ \E threw \in BOOLEAN :
          /\ clearSession(threw)
          /\ lastOp' = [Op("clearSession") EXCEPT !.sessionID = s, !.threw = threw]
    /\ hostUnchanged

TrackerNext ==
    \/ \E s \in Sessions, f \in TrackerFiles : CallIsFileInjected(s, f)
    \/ \E s \in Sessions, f \in TrackerFiles : CallMarkFileInjected(s, f)
    \/ \E s \in Sessions, f \in TrackerFiles : CallClearFileMarker(s, f)
    \/ \E s \in Sessions : CallGetInjectedFiles(s)
    \/ \E presentMarkers \in SUBSET TrackerMarkers : CallSyncWithMarkers(presentMarkers)
    \/ \E s \in Sessions : CallHasRepoInstructions(s)
    \/ \E s \in Sessions : CallMarkRepoInstructionsInjected(s)
    \/ \E c \in TrackerCalls, text \in TrackerTexts : CallSetPending(c, text)
    \/ \E c \in TrackerCalls : CallGetPending(c)
    \/ \E c \in TrackerCalls : CallConsumePending(c)
    \/ \E s \in Sessions : CallClearSession(s)

SpecTracker == Init /\ [][TrackerNext]_vars

(***************************************************************************)
(* Properties of the tracker (checked under SpecTracker).                  *)
(***************************************************************************)
Injected(s, k) == isFileInjected(injectedPerSession, s, k)

\* C7 (as claimed): clearSession(s) makes isFileInjected(s,k) false for every
\* k and hasRepoInstructions(s) false, and leaves unchanged the delivered-file
\* set and repo flag of every other session and every entry of pendingByCall.
C7_ClearSessionClears ==
    [][lastOp'.op = "clearSession" =>
          LET s == lastOp'.sessionID IN
          /\ \A k \in TrackerFiles : ~isFileInjected(injectedPerSession', s, k)
          /\ ~hasRepoInstructions(repoInstructionsInjected', s)
          /\ \A o \in Sessions \ {s} :
                /\ getInjectedFiles(injectedPerSession', o)
                       = getInjectedFiles(injectedPerSession, o)
                /\ hasRepoInstructions(repoInstructionsInjected', o)
                       = hasRepoInstructions(repoInstructionsInjected, o)
          /\ pendingInstructions' = pendingInstructions]_vars

\* C8: syncWithMarkers(M) is a full resync that is a pure filter: for every
\* session s and key k, isFileInjected(s,k) after the call equals
\* (isFileInjected(s,k) before the call AND basename(k) is in M); it never adds
\* an entry, and an empty M leaves every session without delivered-file entries.
C8_SyncIsPureFilter ==
    [][lastOp'.op = "syncWithMarkers" =>
          /\ \A s \in Sessions, k \in TrackerFiles \cup TrackerMarkers :
                isFileInjected(injectedPerSession', s, k)
                    = (Injected(s, k) /\ basename(k) \in lastOp'.markers)
          /\ \A s \in Sessions :
                Members(getInjectedFiles(injectedPerSession', s))
                    \subseteq Members(getInjectedFiles(injectedPerSession, s))
          /\ lastOp'.markers = {} =>
                \A s \in Sessions : getInjectedFiles(injectedPerSession', s) = << >>]_vars

\* C8 witness: a resync has evicted an entry of some session and kept another.
C8_Witness ==
    /\ lastOp.op = "syncWithMarkers"
    /\ lastOp.flag
    /\ lastOp.markers # {}
    /\ \E s \in Sessions, k \in TrackerFiles : Injected(s, k)

\* C9: delivery-flag lifecycle: isFileInjected(s,k) is false initially and
\* becomes true only by markFileInjected(s,k); it is true after
\* markFileInjected(s,k) and stays true until clearFileMarker(s,k) or a resync
\* or clear that evicts it; it is false after clearFileMarker(s,k).
C9_Lifecycle ==
    /\ \A s \in Sessions, k \in TrackerFiles : ~Injected(s, k)
    /\ [](lastOp.op = "markFileInjected" => Injected(lastOp.sessionID, lastOp.file))
    /\ [](lastOp.op = "clearFileMarker" => ~Injected(lastOp.sessionID, lastOp.file))
    /\ [][\A s \in Sessions, k \in TrackerFiles :
             /\ (~Injected(s, k) /\ isFileInjected(injectedPerSession', s, k))
                   => (lastOp'.op = "markFileInjected"
                       /\ lastOp'.sessionID = s /\ lastOp'.file = k)
             /\ (Injected(s, k) /\ ~isFileInjected(injectedPerSession', s, k))
                   => \/ (lastOp'.op = "clearFileMarker"
                          /\ lastOp'.sessionID = s /\ lastOp'.file = k)
                      \/ (lastOp'.op = "syncWithMarkers"
                          /\ basename(k) \notin lastOp'.markers)
                      \/ (lastOp'.op = "clearSession" /\ lastOp'.sessionID = s)]_vars

\* C9 witness: clearFileMarker(s,k) was called on a recorded key (so k went
\* false -> true -> false).
C9_Witness ==
    /\ lastOp.op = "clearFileMarker"
    /\ lastOp.flag
    /\ ~Injected(lastOp.sessionID, lastOp.file)

\* C10: markFileInjected is idempotent: a second markFileInjected(s,k) right
\* after the first leaves the tracker as the first left it; after any
\* markFileInjected(s,k), isFileInjected(s,k) is true and getInjectedFiles(s)
\* holds k exactly once.
C10_MarkIdempotent ==
    /\ [](lastOp.op = "markFileInjected" =>
            LET files == getInjectedFiles(injectedPerSession, lastOp.sessionID) IN
            /\ Injected(lastOp.sessionID, lastOp.file)
            /\ Cardinality({i \in 1..Len(files) : files[i] = lastOp.file}) = 1)
    /\ [][(/\ lastOp.op = "markFileInjected"
           /\ lastOp'.op = "markFileInjected"
           /\ lastOp'.sessionID = lastOp.sessionID
           /\ lastOp'.file = lastOp.file)
             => trackerVars' = trackerVars]_vars

\* C10 witness: markFileInjected(s,k) was called on a key that was already
\* recorded, in a session that holds another key as well.
C10_Witness ==
    /\ lastOp.op = "markFileInjected"
    /\ lastOp.flag
    /\ Len(getInjectedFiles(injectedPerSession, lastOp.sessionID)) = 2

(***************************************************************************)
(* Properties of the plugin's hooks (checked under Spec).                  *)
(***************************************************************************)
Records == {pathInstructions[i] : i \in 1..Len(pathInstructions)}

\* the marker token of a record: what the emitted tags carry
Marker(k) == basename(k.file)

Contains(text, block) ==
    \/ block = << >>
    \/ \E j \in 1..(Len(text) + 1 - Len(block)) :
          text[j] = block[1] /\ SubSeq(text, j, j + Len(block) - 1) = block

\* the tool outputs of the session's current history that carry k's opening tag
Carriers(s, k) ==
    {c \in Members(history[s]) :
        calls[c].status = "completed" /\ Marker(k) \in extractInstructionMarkers(outputs[c])}

IsBefore(op) == op.op = "tool.execute.before"
IsAfter(op) == op.op = "tool.execute.after"
IsScan(op) == op.op = "experimental.chat.messages.transform"
IsCompacted(op) == op.op = "event" /\ op.kind = "session.compacted"

\* Between tool.execute.before and tool.execute.after of a call nothing
\* touches what is staged for it, and tool.execute.after leaves the tool's
\* own output followed by a blank line and the staged text, or the tool's own
\* output alone when nothing is staged.
StagedIsWhatIsAppended ==
    /\ [][\A c \in CallIdSet :
             (c \in DOMAIN calls /\ calls[c].status = "running"
              /\ calls'[c].status = "running")
                => getPending(pendingInstructions', c) = getPending(pendingInstructions, c)]_vars
    /\ [][IsAfter(lastOp') =>
             LET c == lastOp'.callID
                 staged == getPending(pendingInstructions, c)
             IN  /\ outputs'[c] = IF staged.present
                                  THEN OwnOutput(c) \o <<NL, NL>> \o staged.text
                                  ELSE OwnOutput(c)
                 /\ ~getPending(pendingInstructions', c).present]_vars

\* C1 (as claimed): at most once: the current history of a session never
\* holds more than one tool output carrying the opening marker of the same
\* path-scoped instruction.
C1_AtMostOnce ==
    \A s \in Sessions, k \in Records : Cardinality(Carriers(s, k)) <= 1

\* C2: deduplication within a session: a record staged in session s since the
\* last history scan and the last session.compacted of s is recorded as
\* delivered, and no later tool.execute.before of s stages its block again;
\* when every record matching the path is already delivered nothing is
\* staged, and tool.execute.after leaves the output equal to the tool's own.
C2_Dedup ==
    /\ [](\A s \in Sessions : \A f \in stagedSince[s] : Injected(s, f))
    /\ [][IsBefore(lastOp') =>
             LET s == lastOp'.sessionID
                 staged == getPending(pendingInstructions', lastOp'.callID)
             IN  /\ \A k \in Records :
                       k.file \in stagedSince[s] =>
                           /\ ~SetHas(lastOp'.files, k.file)
                           /\ Marker(k) \notin extractInstructionMarkers(staged.text)
                 /\ (\A k \in Records : matcher(k, lastOp'.file) => Injected(s, k.file))
                       => ~staged.present]_vars
    /\ StagedIsWhatIsAppended

\* C2 witness: a tool.execute.before on a path matching a record staged
\* earlier in the session (no scan since) has staged nothing.
C2_Witness ==
    /\ IsBefore(lastOp)
    /\ ~lastOp.flag
    /\ \E k \in Records :
          /\ matcher(k, lastOp.file)
          /\ k.file \in stagedSince[lastOp.sessionID]
    /\ ~getPending(pendingInstructions, lastOp.callID).present

\* C3: re-injection after undo: after a history scan that found no marker of
\* record k, isFileInjected(s,k) is false for every session; it stays false
\* until a tool.execute.before of s on a path matching k, and that call (a
\* file tool with a string path) stages k's wrapped block, which
\* tool.execute.after appends to that call's output.
C3_ReinjectAfterUndo ==
    /\ [](IsScan(lastOp) =>
            \A k \in Records : Marker(k) \notin lastOp.markers =>
                \A s \in Sessions : ~Injected(s, k.file))
    /\ [][\A s \in Sessions, k \in Records :
             (~Injected(s, k.file) /\ isFileInjected(injectedPerSession', s, k.file))
                => (IsBefore(lastOp') /\ lastOp'.sessionID = s
                    /\ matcher(k, lastOp'.file))]_vars
    /\ [][IsBefore(lastOp') =>
             \A k \in Records :
                (matcher(k, lastOp'.file) /\ ~Injected(lastOp'.sessionID, k.file))
                   => /\ getPending(pendingInstructions', lastOp'.callID).present
                      /\ Contains(getPending(pendingInstructions', lastOp'.callID).text,
                                  FormatInstruction(k))]_vars
    /\ StagedIsWhatIsAppended

\* C3 witness: a tool output carrying k's block was undone, and a later call
\* of the same session got k's block appended again.
C3_Witness ==
    /\ IsAfter(lastOp)
    /\ lastOp.flag
    /\ \E k \in Records, c0 \in DOMAIN outputs :
          /\ c0 # lastOp.callID
          /\ calls[c0].sessionID = lastOp.sessionID
          /\ c0 \notin Members(history[lastOp.sessionID])
          /\ Contains(outputs[c0], FormatInstruction(k))
          /\ Contains(outputs[lastOp.callID], FormatInstruction(k))

\* C4 (as claimed): if a history scan finds the opening marker of record k,
\* every delivery record for k survives the scan, and a following
\* tool.execute.before of a session holding such a record, on a path matching
\* k, stages nothing (so nothing is appended to the tool output).
C4_MarkerPresentAppendsNothing ==
    /\ [][IsScan(lastOp') =>
             \A s \in Sessions, k \in Records :
                (Marker(k) \in lastOp'.markers /\ Injected(s, k.file))
                   => isFileInjected(injectedPerSession', s, k.file)]_vars
    /\ [][(IsScan(lastOp) /\ IsBefore(lastOp')) =>
             \A k \in Records :
                (/\ Marker(k) \in lastOp.markers
                 /\ Injected(lastOp'.sessionID, k.file)
                 /\ matcher(k, lastOp'.file))
                   => ~getPending(pendingInstructions', lastOp'.callID).present]_vars

\* C4 (amended): if a history scan finds the opening marker of record k,
\* every delivery record for k survives the scan, and a following
\* tool.execute.before of a session holding such a record, on a path matching
\* k, stages no block of k; it stages nothing at all when every record
\* matching the path is already delivered, and tool.execute.after appends
\* exactly what was staged.
C4_MarkerPresentKeepsDelivery ==
    /\ [][IsScan(lastOp') =>
             \A s \in Sessions, k \in Records :
                (Marker(k) \in lastOp'.markers /\ Injected(s, k.file))
                   => isFileInjected(injectedPerSession', s, k.file)]_vars
    /\ [][(IsScan(lastOp) /\ IsBefore(lastOp')) =>
             LET s == lastOp'.sessionID
                 staged == getPending(pendingInstructions', lastOp'.callID)
             IN  \A k \in Records :
                    (/\ Marker(k) \in lastOp.markers
                     /\ Injected(s, k.file)
                     /\ matcher(k, lastOp'.file))
                       => /\ Marker(k) \notin extractInstructionMarkers(staged.text)
                          /\ (\A o \in Records :
                                 matcher(o, lastOp'.file) => Injected(s, o.file))
                                => ~staged.present]_vars
    /\ StagedIsWhatIsAppended

\* C4 witness: right after a scan that found k's marker, a call of a session
\* holding k's delivery record, on a path matching k, staged nothing.
C4_Witness ==
    /\ IsBefore(lastOp)
    /\ ~lastOp.flag
    /\ \E k \in Records :
          /\ matcher(k, lastOp.file)
          /\ Injected(lastOp.sessionID, k.file)
          /\ Carriers(lastOp.sessionID, k) # {}
          /\ stagedSince[lastOp.sessionID] = {}

\* C5 (as claimed): no re-injection after redo: when a session's reverted
\* messages are restored and the restored history carries k's marker, the
\* next tool.execute.before of that session on a path matching k does not
\* stage k again, whatever scans ran before the restore.
C5_NoReinjectAfterRedo ==
    [][(lastOp.op = "session.unrevert" /\ IsBefore(lastOp')
        /\ lastOp'.sessionID = lastOp.sessionID) =>
          \A k \in Records :
             (Carriers(lastOp.sessionID, k) # {} /\ matcher(k, lastOp'.file))
                => ~SetHas(lastOp'.files, k.file)]_vars

\* C6 (as claimed): when the event hook receives session.compacted for session
\* s, the delivered-file set of s is wiped, and the next tool.execute.before of
\* s on a path matching a record stages that record's block.
C6_CompactionWipes ==
    /\ [](IsCompacted(lastOp) =>
            \A k \in Records : ~Injected(lastOp.sessionID, k.file))
    /\ [][(IsCompacted(lastOp) /\ IsBefore(lastOp')
           /\ lastOp'.sessionID = lastOp.sessionID) =>
             \A k \in Records :
                matcher(k, lastOp'.file) => SetHas(lastOp'.files, k.file)]_vars

(***************************************************************************)
(* Further properties of the tracker (checked under SpecTracker).          *)
(***************************************************************************)
\* C11: tracker session isolation: markFileInjected(A,f), clearFileMarker(A,f)
\* and markRepoInstructionsInjected(A) never change isFileInjected(B,g) or
\* hasRepoInstructions(B) for any session B other than A and any key g.
C11_SessionIsolation ==
    [][lastOp'.op \in {"markFileInjected", "clearFileMarker",
                       "markRepoInstructionsInjected"} =>
          \A B \in Sessions \ {lastOp'.sessionID} :
             /\ \A g \in TrackerFiles :
                   isFileInjected(injectedPerSession', B, g) = Injected(B, g)
             /\ hasRepoInstructions(repoInstructionsInjected', B)
                   = hasRepoInstructions(repoInstructionsInjected, B)]_vars

\* C11 witness: clearFileMarker(A,f) removed f from A while another session
\* still holds f and has its repo flag set.
C11_Witness ==
    /\ lastOp.op = "clearFileMarker"
    /\ lastOp.flag
    /\ \E B \in Sessions \ {lastOp.sessionID} :
          /\ Injected(B, lastOp.file)
          /\ hasRepoInstructions(repoInstructionsInjected, B)
          /\ ~hasRepoInstructions(repoInstructionsInjected, lastOp.sessionID)

\* C12: consumePending is read-then-delete: setPending(c,T) leaves T under c;
\* consumePending(c) returns what was under c and leaves no entry under c
\* (other entries untouched), so right after setPending(c,T) it returns T, and
\* a consumePending(c) or getPending(c) right after a consumePending(c)
\* returns absent; getPending(c) returns what is under c and removes nothing.
C12_ReadThenDelete ==
    /\ [][lastOp'.op = "setPending" =>
             getPending(pendingInstructions', lastOp'.callID)
                 = [present |-> TRUE, text |-> lastOp'.text]]_vars
    /\ [][lastOp'.op = "consumePending" =>
             /\ [present |-> lastOp'.flag, text |-> lastOp'.text]
                    = getPending(pendingInstructions, lastOp'.callID)
             /\ ~getPending(pendingInstructions', lastOp'.callID).present
             /\ \A c \in TrackerCalls \ {lastOp'.callID} :
                   getPending(pendingInstructions', c) = getPending(pendingInstructions, c)]_vars
    /\ [][lastOp'.op = "getPending" =>
             /\ [present |-> lastOp'.flag, text |-> lastOp'.text]
                    = getPending(pendingInstructions, lastOp'.callID)
             /\ pendingInstructions' = pendingInstructions]_vars
    /\ [][(lastOp.op = "setPending" /\ lastOp'.op = "consumePending"
           /\ lastOp'.callID = lastOp.callID)
             => (lastOp'.flag /\ lastOp'.text = lastOp.text)]_vars
    /\ [][(lastOp.op = "consumePending"
           /\ lastOp'.op \in {"consumePending", "getPending"}
           /\ lastOp'.callID = lastOp.callID)
             => ~lastOp'.flag]_vars

\* C12 witness: consumePending(c) returned the text stored under c and removed
\* the entry, while the entry of another call id is still there.
C12_Witness ==
    /\ lastOp.op = "consumePending"
    /\ lastOp.flag
    /\ lastOp.text \in TrackerTexts
    /\ ~getPending(pendingInstructions, lastOp.callID).present
    /\ \E c \in TrackerCalls \ {lastOp.callID} : getPending(pendingInstructions, c).present

(***************************************************************************)
(* The host calls tool.execute.after once more for a call that already     *)
(* completed, handing the hook the output as it stands.                    *)
(***************************************************************************)
ToolExecuteAfterAgain(callID) ==
    /\ callID \in DOMAIN calls
    /\ calls[callID].status = "completed"
    /\ LET instructionText == getPending(pendingInstructions, callID)
           out == AfterOutput(outputs[callID], instructionText)
       IN  /\ pendingInstructions' = consumePending(pendingInstructions, callID)
           /\ outputs' = [outputs EXCEPT ![callID] = out]
           /\ lastOp' = [Op("tool.execute.after") EXCEPT
                            !.kind = "again",
                            !.sessionID = calls[callID].sessionID,
                            !.callID = callID,
                            !.text = instructionText.text,
                            !.flag = instructionText.present /\ instructionText.text # << >>]
    /\ UNCHANGED <<injectedPerSession, repoInstructionsInjected, pluginVars,
                   nextCall, calls, history, reverted, stagedSince>>

RepeatNext ==
    \/ \E tool \in Tools, fp \in FilePathArgs : ToolExecuteBefore("A", tool, fp)
    \/ \E c \in CallIdSet : ToolExecuteAfter(c)
    \/ \E c \in CallIdSet : ToolExecuteAfterAgain(c)
    \/ \E c \in CallIdSet : ToolFails(c)
    \/ MessagesTransform("A")
    \/ \E type \in EventTypes : Event(type, "A")
    \/ \E i \in 1..MaxCalls : Revert("A", i)
    \/ Unrevert("A")

SpecRepeat == Init /\ [][RepeatNext]_vars

(***************************************************************************)
(* Further properties of the plugin's hooks.                               *)
(***************************************************************************)
Staged(c) == getPending(pendingInstructions, c)

\* the number of opening tags of record k in a text
OpenTags(text, k) ==
    LET tag == <<OPEN>> \o Marker(k) \o <<GT>> IN
    Cardinality({j \in 1..Len(text) :
        /\ text[j] = OPEN
        /\ j + Len(tag) - 1 <= Len(text)
        /\ SubSeq(text, j, j + Len(tag) - 1) = tag})

\* C13: each staged text is appended to a tool output at most once: a pending
\* entry appears only through a tool.execute.before of that call id that
\* found at least one match; it disappears only through a tool.execute.after
\* of that call id, and no entry is left under a call id after its
\* tool.execute.after; a further tool.execute.after for a completed call
\* appends nothing; so no tool output ever carries a record's block twice.
C13_AppendedAtMostOnce ==
    /\ [][\A c \in CallIdSet :
             /\ (~Staged(c).present /\ getPending(pendingInstructions', c).present)
                   => (IsBefore(lastOp') /\ lastOp'.callID = c /\ lastOp'.files # << >>)
             /\ (Staged(c).present /\ ~getPending(pendingInstructions', c).present)
                   => (IsAfter(lastOp') /\ lastOp'.callID = c)]_vars
    /\ [](IsAfter(lastOp) => ~Staged(lastOp.callID).present)
    /\ [][(IsAfter(lastOp') /\ calls[lastOp'.callID].status = "completed")
             => (outputs'[lastOp'.callID] = outputs[lastOp'.callID] /\ ~lastOp'.flag)]_vars
    /\ [](\A c \in DOMAIN outputs, k \in Records : OpenTags(outputs[c], k) <= 1)

\* C13 witness: tool.execute.after ran a second time for a call whose output
\* carries a block appended by the first.
C13_Witness ==
    /\ IsAfter(lastOp)
    /\ lastOp.kind = "again"
    /\ \E k \in Records : OpenTags(outputs[lastOp.callID], k) = 1

\* the records that match the path of a tool.execute.before and are not yet
\* delivered in its session, in the state the hook starts from
Due(s, p) == {k \in Records : matcher(k, p) /\ ~Injected(s, k.file)}

\* C14: optimistic delivery: when tool.execute.before runs for a file tool on
\* a path matching a record not yet delivered in the session, then as the
\* hook returns the record is marked delivered in the session and its
\* formatted text is staged under the call id, while the call is still
\* running and has no output (tool.execute.after has not run for it).
C14_OptimisticDelivery ==
    [][IsBefore(lastOp') =>
          LET s == lastOp'.sessionID
              c == lastOp'.callID
          IN  \A k \in Due(s, lastOp'.file) :
                 /\ lastOp'.kind \in FILE_TOOLS
                 /\ isFileInjected(injectedPerSession', s, k.file)
                 /\ getPending(pendingInstructions', c).present
                 /\ Contains(getPending(pendingInstructions', c).text, FormatInstruction(k))
                 /\ calls'[c].status = "running"
                 /\ c \notin DOMAIN outputs']_vars

\* C14 witness: a record was staged and marked delivered, the tool then
\* failed: the record counts as delivered although no output carries it.
C14_Witness ==
    /\ lastOp.op = "tool.error"
    /\ Staged(lastOp.callID).present
    /\ \E k \in Records :
          /\ Contains(Staged(lastOp.callID).text, FormatInstruction(k))
          /\ Injected(lastOp.sessionID, k.file)
          /\ \A c \in DOMAIN outputs : OpenTags(outputs[c], k) = 0

\* the number of closing tags of record k in a text
CloseTags(text, k) ==
    LET tag == <<CLOSE>> \o Marker(k) \o <<GT>> IN
    Cardinality({j \in 1..Len(text) :
        /\ text[j] = CLOSE
        /\ j + Len(tag) - 1 <= Len(text)
        /\ SubSeq(text, j, j + Len(tag) - 1) = tag})

\* C15: all matches in one injection: the text staged by one
\* tool.execute.before holds the block of each loaded record that matches the
\* call's relative path and was not yet delivered in the session, once, with
\* its own opening and closing tag, and no block of any other record (nothing
\* is staged when there is no such record); tool.execute.after appends all of
\* it to that call's output.
C15_AllMatchesInOneInjection ==
    /\ [][IsBefore(lastOp') =>
             LET due == Due(lastOp'.sessionID, lastOp'.file)
                 staged == getPending(pendingInstructions', lastOp'.callID)
             IN  /\ staged.present <=> due # {}
                 /\ \A k \in Records :
                       /\ OpenTags(staged.text, k) = IF k \in due THEN 1 ELSE 0
                       /\ CloseTags(staged.text, k) = IF k \in due THEN 1 ELSE 0
                       /\ k \in due => Contains(staged.text, FormatInstruction(k))
                 /\ extractInstructionMarkers(staged.text) = {Marker(k) : k \in due}]_vars
    /\ StagedIsWhatIsAppended

\* C15 witness: one tool output carries the blocks of both loaded records.
C15_Witness ==
    /\ IsAfter(lastOp)
    /\ lastOp.flag
    /\ \A k \in Records :
          /\ OpenTags(outputs[lastOp.callID], k) = 1
          /\ CloseTags(outputs[lastOp.callID], k) = 1
          /\ Contains(outputs[lastOp.callID], FormatInstruction(k))
    /\ Cardinality(Records) = 2

\* output.output as the host hands it to tool.execute.after: the tool's own
\* output, or what the output already is when the call had completed before
Given(c) == IF calls[c].status = "completed" THEN outputs[c] ELSE OwnOutput(c)

\* C16: tool.execute.after leaves the output it was given followed by a blank
\* line and the text staged for its call id, and leaves the output as given
\* when nothing is staged for that call id; no other output changes.
C16_AfterAppendsStaged ==
    [][IsAfter(lastOp') =>
          LET c == lastOp'.callID IN
          /\ outputs'[c] = IF Staged(c).present
                           THEN Given(c) \o <<NL, NL>> \o Staged(c).text
                           ELSE Given(c)
          /\ \A o \in DOMAIN outputs \ {c} : outputs'[o] = outputs[o]
          /\ DOMAIN outputs' = DOMAIN outputs \cup {c}]_vars

\* C16 witness: tool.execute.after appended a staged text to the tool's own
\* output, and an earlier call had its output left as the tool produced it.
C16_Witness ==
    /\ IsAfter(lastOp)
    /\ lastOp.flag
    /\ outputs[lastOp.callID] = OwnOutput(lastOp.callID) \o <<NL, NL>> \o lastOp.text
    /\ \E o \in DOMAIN outputs : outputs[o] = OwnOutput(o)

\* a tool.execute.before that returned before looking at any record: the tool
\* is no file tool, or args.filePath is missing, no string or empty (the
\* relative path of every other argument of the model is not empty)
Skipped(op) == IsBefore(op) /\ (op.kind \notin {"read", "edit", "write"} \/ op.file = << >>)

\* C17: tool.execute.before does nothing when misused: if the tool is not one
\* of read, edit, write, or args.filePath is absent or no string, the hook
\* leaves the tracker as it was (no delivery recorded, nothing staged for the
\* call), and the tool.execute.after that follows leaves the output equal to
\* the tool's own output.
C17_MisuseIsNoOp ==
    /\ [][\A s \in Sessions, tool \in Tools, fp \in FilePathArgs :
             (/\ IsBefore(lastOp')
              /\ (tool \notin {"read", "edit", "write"} \/ fp.type # "string")
              /\ ToolExecuteBefore(s, tool, fp))
                => /\ trackerVars' = trackerVars
                   /\ ~getPending(pendingInstructions', lastOp'.callID).present
                   /\ Skipped(lastOp')]_vars
    /\ [][(Skipped(lastOp) /\ IsAfter(lastOp') /\ lastOp'.callID = lastOp.callID)
             => (outputs'[lastOp'.callID] = OwnOutput(lastOp'.callID) /\ ~lastOp'.flag)]_vars
    /\ StagedIsWhatIsAppended

\* C17 witness: tool.execute.before ran for a tool that is no file tool and
\* staged nothing for it, while the text staged for an earlier call and a
\* recorded delivery are still there.
C17_Witness ==
    /\ IsBefore(lastOp)
    /\ lastOp.kind \notin {"read", "edit", "write"}
    /\ ~Staged(lastOp.callID).present
    /\ \E c \in DOMAIN calls \ {lastOp.callID} : Staged(c).present
    /\ \E k \in Records : Injected(lastOp.sessionID, k.file)

\* a tool.execute.before of a file tool whose relative path matches no loaded
\* record
NoMatch(op) ==
    /\ IsBefore(op)
    /\ op.kind \in {"read", "edit", "write"}
    /\ op.file # << >>
    /\ \A k \in Records : ~matcher(k, op.file)

\* C18: no injection for non-matching files: for a file tool whose relative
\* path matches no loaded record, tool.execute.before records no delivery and
\* stages nothing, and the tool.execute.after that follows leaves the output
\* equal to the tool's own output.
C18_NoInjectionWithoutMatch ==
    /\ [][NoMatch(lastOp') =>
             /\ trackerVars' = trackerVars
             /\ ~getPending(pendingInstructions', lastOp'.callID).present
             /\ lastOp'.files = << >>]_vars
    /\ [][(NoMatch(lastOp) /\ IsAfter(lastOp') /\ lastOp'.callID = lastOp.callID)
             => (outputs'[lastOp'.callID] = OwnOutput(lastOp'.callID) /\ ~lastOp'.flag)]_vars
    /\ StagedIsWhatIsAppended

\* C18 witness: a file tool ran on README.md, which no record matches, in a
\* session without any delivery: nothing is recorded or staged for it.
C18_Witness ==
    /\ NoMatch(lastOp)
    /\ lastOp.file = <<"README.md">>
    /\ ~Staged(lastOp.callID).present
    /\ \A k \in Records : ~Injected(lastOp.sessionID, k.file)

\* The identities whose opening tag stands in the output of a completed tool
\* call of the session's current message list (every opening tag of the
\* model's outputs is the tag of a loaded record).
TagsInHistory(s) ==
    {Marker(k) : k \in {r \in Records :
        \E c \in Members(history[s]) :
            calls[c].status = "completed" /\ OpenTags(outputs[c], r) >= 1}}

\* C19: the history scan feeds the tracker exactly the markers present:
\* experimental.chat.messages.transform calls syncWithMarkers with the set of
\* identities found in opening tags inside the output of the tool parts of the
\* given messages; text parts (even when they quote a tag) and tool parts
\* without output contribute nothing; the hook changes nothing else.
C19_ScanFeedsMarkersPresent ==
    [][IsScan(lastOp') =>
          LET expected == TagsInHistory(lastOp'.sessionID) IN
          /\ lastOp'.markers = expected
          /\ injectedPerSession' = syncWithMarkers(injectedPerSession, expected)
          /\ UNCHANGED <<repoInstructionsInjected, pendingInstructions,
                         pluginVars, hostVars>>]_vars

\* C19 witness: a scan of a message list that holds a tool part with a
\* record's tag, a tool part without output (the tool failed) and text parts
\* quoting a tag found one marker and not the other.
C19_Witness ==
    /\ IsScan(lastOp)
    /\ lastOp.markers = {<<"src.instructions.md">>}
    /\ \E c \in Members(history[lastOp.sessionID]) : calls[c].status = "error"
    /\ Len(Messages(lastOp.sessionID)) = 2

(***************************************************************************)
(* The plugin constructed over any directory listing: the loader           *)
(* (src/dist/loader.js) keeps the entries of .github/instructions whose    *)
(* name ends in ".instructions.md" and whose frontmatter gives at least    *)
(* one applyTo pattern.  A file name is any sequence of atoms without "/". *)
(***************************************************************************)
MaxFiles == 2

\* the last atoms of the model's file names that end in ".instructions.md"
InstructionsMdAtoms == {"ts.instructions.md", "b.instructions.md"}

endsWithInstructionsMd(filename) ==
    filename # << >> /\ filename[Len(filename)] \in InstructionsMdAtoms

DirNames ==
    { <<"ts.instructions.md">>, <<"a", GT, "b.instructions.md">>, <<"notes.md">> }

DirBodies ==
    { <<"Use strict types.", NL>>, <<"Tags look like ", OPEN, "x", GT>> }

\* normalizePatterns(parsed.frontmatter.applyTo) of the file: the patterns, or
\* none when the frontmatter gives none
DirPatterns == { <<"**/*.ts">>, <<"**/*.ts", "src/**/*">>, << >> }

DirEntries == [name : DirNames, applyTo : DirPatterns, body : DirBodies]

\* what readdirSync can return: entries with distinct names, in any order
DirListings ==
    {l \in UNION {[1..n -> DirEntries] : n \in 0..MaxFiles} :
        \A i, j \in 1..Len(l) : i # j => l[i].name # l[j].name}

RECURSIVE loadDirectory(_, _)
loadDirectory(directory, files) ==
    IF files = << >> THEN << >>
    ELSE LET entry == Head(files)
             rest == loadDirectory(directory, Tail(files))
         IN  IF ~endsWithInstructionsMd(entry.name) THEN rest
             ELSE IF Len(entry.applyTo) = 0 THEN rest
             ELSE <<PathInstruction(directory, entry.name, entry.applyTo, entry.body)>>
                  \o rest

InitLoaded ==
    /\ injectedPerSession = << >>
    /\ repoInstructionsInjected = << >>
    /\ pendingInstructions = << >>
    /\ projectDir \in ProjectDirs
    /\ pathInstructions \in {loadDirectory(projectDir, l) : l \in DirListings}
    /\ nextCall = 0
    /\ calls = << >>
    /\ outputs = << >>
    /\ history = [s \in Sessions |-> << >>]
    /\ reverted = [s \in Sessions |-> << >>]
    /\ stagedSince = [s \in Sessions |-> {}]
    /\ lastOp = NoOp

SpecLoaded == InitLoaded /\ [][SingleNext]_vars

\* the records whose emitted block stands in the output of a completed tool
\* call of the session's current message list
BlocksInHistory(s) ==
    {k \in Records :
        \E c \in Members(history[s]) :
            calls[c].status = "completed" /\ Contains(outputs[c], FormatInstruction(k))}

\* C20 (as claimed): marker round trip: for every loaded record, the identity
\* holds no ">" and scanning the block emitted for the record extracts exactly
\* one marker token, the record's identity; so a scan of a history names
\* exactly the records whose block the history holds.
C20_MarkerRoundTrip ==
    /\ [][IsBefore(lastOp') =>
             \A k \in Records :
                SetHas(lastOp'.files, k.file) =>
                   /\ \A i \in 1..Len(Marker(k)) : Marker(k)[i] # GT
                   /\ extractInstructionMarkers(FormatInstruction(k)) = {Marker(k)}]_vars
    /\ [][IsScan(lastOp') =>
             lastOp'.markers = {Marker(k) : k \in BlocksInHistory(lastOp'.sessionID)}]_vars

(***************************************************************************)
(* The two roles of a record's identity.                                   *)
(***************************************************************************)
\* the path of the file of .github/instructions that has the given name
KeyOf(token) == instructionsDir(projectDir) \o <<SLASH>> \o token

\* the keys a step has added to the delivered-file set of session s
AddedKeys(s) ==
    Members(getInjectedFiles(injectedPerSession', s))
        \ Members(getInjectedFiles(injectedPerSession, s))

RECURSIVE PatternList(_)
PatternList(patterns) ==
    IF Len(patterns) = 1 THEN <<patterns[1]>>
    ELSE <<patterns[1], ", ">> \o PatternList(Tail(patterns))

\* the body up to its last atom that is no whitespace
BodyTrimmed(body) ==
    LET solid == {i \in 1..Len(body) : body[i] \notin Whitespace}
    IN  IF solid = {} THEN << >>
        ELSE SubSeq(body, 1, CHOOSE i \in solid : \A j \in solid : j <= i)

\* the name of the record's source file: what follows the directory
NameOf(k) ==
    SubSeq(k.file, Len(instructionsDir(projectDir)) + 2, Len(k.file))

WireBlock(k) ==
    <<OPEN>> \o NameOf(k) \o <<GT>>
    \o <<NL>> \o <<"## Path-Specific Instructions (applies to: ">>
    \o PatternList(k.applyTo) \o <<")">>
    \o <<NL, NL>> \o BodyTrimmed(k.content)
    \o <<NL>> \o <<CLOSE>> \o NameOf(k) \o <<GT>>

\* the blocks of the records with the given files, one blank line between them
RECURSIVE WireText(_)
WireText(files) ==
    LET first == WireBlock(CHOOSE k \in Records : k.file = files[1])
    IN  IF Len(files) = 1 THEN first
        ELSE first \o <<NL, NL>> \o WireText(Tail(files))

RepoText == <<"Always write tests.">>

\* readFileSync's result, or null (present = FALSE) when reading fails
loadRepoInstructions(directory) ==
    CASE Segments(directory) = <<"p">> -> [present |-> TRUE, text |-> RepoText]
      [] Segments(directory) = <<"e">> -> [present |-> TRUE, text |-> << >>]
      [] OTHER -> [present |-> FALSE, text |-> << >>]

repoInstructions == loadRepoInstructions(projectDir)

\* `Instructions from: .github/copilot-instructions.md\n${repoInstructions}`
RepoEntry(repo) ==
    <<"Instructions from: .github/copilot-instructions.md", NL>> \o repo.text

systemTransform_once(system, repo) ==
    IF repo.present /\ repo.text # << >> /\ ~SetHas(system, RepoEntry(repo))
    THEN Append(system, RepoEntry(repo))
    ELSE system

\* output.system after experimental.chat.system.transform
systemTransform(system, repo) ==
    IF repo.present /\ repo.text # << >>
    THEN Append(system, RepoEntry(repo))
    ELSE system

sessionCompacting_once(context, repo) ==
    IF repo.present /\ repo.text # << >> /\ ~SetHas(context, RepoEntry(repo))
    THEN Append(context, RepoEntry(repo))
    ELSE context

\* output.context after experimental.session.compacting
sessionCompacting(context, repo) ==
    IF repo.present /\ repo.text # << >>
    THEN Append(context, RepoEntry(repo))
    ELSE context

\* The lists the host hands to the two hooks: empty, with entries of its
\* own, and with the entry an earlier invocation of the hook left.
HostLists ==
    { << >>,
      << <<"You are a coding agent.">> >>,
      << <<"You are a coding agent.">>,
         <<"Instructions from: .github/copilot-instructions.md", NL>> \o RepoText >> }

SystemTransform(system) ==
    /\ lastOp' = [Op("experimental.chat.system.transform") EXCEPT
                     !.list = systemTransform(system, repoInstructions),
                     !.flag = Len(systemTransform(system, repoInstructions)) > Len(system)]
    /\ UNCHANGED <<trackerVars, pluginVars, hostVars, stagedSince>>

SessionCompacting(context) ==
    /\ lastOp' = [Op("experimental.session.compacting") EXCEPT
                     !.list = sessionCompacting(context, repoInstructions),
                     !.flag = Len(sessionCompacting(context, repoInstructions)) > Len(context)]
    /\ UNCHANGED <<trackerVars, pluginVars, hostVars, stagedSince>>

PromptDirs == { <<SLASH, "p", SLASH>>, <<SLASH, "e">>, <<SLASH, "q">> }

InitPrompt ==
    /\ injectedPerSession = << >>
    /\ repoInstructionsInjected = << >>
    /\ pendingInstructions = << >>
    /\ projectDir \in PromptDirs
    /\ pathInstructions = loadPathInstructions(projectDir)
    /\ nextCall = 0
    /\ calls = << >>
    /\ outputs = << >>
    /\ history = [s \in Sessions |-> << >>]
    /\ reverted = [s \in Sessions |-> << >>]
    /\ stagedSince = [s \in Sessions |-> {}]
    /\ lastOp = NoOp

PromptNext ==
    \/ \E system \in HostLists : SystemTransform(system)
    \/ \E context \in HostLists : SessionCompacting(context)
    \/ \E tool \in Tools, fp \in FilePathArgs : ToolExecuteBefore("A", tool, fp)
    \/ \E c \in CallIdSet : ToolExecuteAfter(c)
    \/ \E c \in CallIdSet : ToolFails(c)
    \/ MessagesTransform("A")
    \/ \E type \in EventTypes : Event(type, "A")
    \/ \E i \in 1..MaxCalls : Revert("A", i)
    \/ Unrevert("A")

SpecPrompt == InitPrompt /\ [][PromptNext]_vars

\* the entry the two hooks add for the project's repository-wide text
ExpectedRepoEntry ==
    <<"Instructions from: .github/copilot-instructions.md", NL, "Always write tests.">>

RepoLoaded == Segments(projectDir) = <<"p">>

\* C23: system-prompt assembly is untracked and repeated: every invocation of
\* experimental.chat.system.transform leaves the system list it was handed
\* with the repository-wide text (under its header) appended when the project
\* has such a text (an empty file counts as none), and leaves the list as
\* handed otherwise, whatever the list already holds and whatever ran before;
\* it changes no tracker state.
C23_SystemPromptRepeated ==
    [][\A system \in HostLists :
          SystemTransform(system) =>
             /\ lastOp'.list = IF RepoLoaded
                               THEN system \o <<ExpectedRepoEntry>>
                               ELSE system
             /\ trackerVars' = trackerVars]_vars

\* C23 witness: the hook appended the text to a list that already held it
\* from an earlier invocation, in a session with a delivery recorded.
C23_Witness ==
    /\ lastOp.op = "experimental.chat.system.transform"
    /\ Len(lastOp.list) = 3
    /\ lastOp.list[2] = lastOp.list[3]
    /\ injectedPerSession # << >>

C25_TrackerTotal ==
    /\ [](~lastOp.threw)
    /\ [][(lastOp'.op \in {"isFileInjected", "getInjectedFiles", "clearFileMarker"}
           /\ lastOp'.sessionID \notin DOMAIN injectedPerSession)
             => /\ ~lastOp'.flag
                /\ lastOp'.files = << >>
                /\ trackerVars' = trackerVars]_vars
    /\ [][(lastOp'.op = "hasRepoInstructions"
           /\ ~SetHas(repoInstructionsInjected, lastOp'.sessionID))
             => (~lastOp'.flag /\ trackerVars' = trackerVars)]_vars
    /\ [][(lastOp'.op \in {"getPending", "consumePending"}
           /\ lastOp'.callID \notin DOMAIN pendingInstructions)
             => (~lastOp'.flag /\ trackerVars' = trackerVars)]_vars
    /\ [][(lastOp'.op = "clearSession"
           /\ lastOp'.sessionID \notin DOMAIN injectedPerSession
           /\ ~SetHas(repoInstructionsInjected, lastOp'.sessionID))
             => trackerVars' = trackerVars]_vars

\* the hooks the plugin returns
HookNames ==
    {"event", "experimental.chat.system.transform", "experimental.session.compacting",
     "tool.execute.before", "tool.execute.after", "experimental.chat.messages.transform"}

\* C26 (as claimed): hooks never fail the host turn: every hook the plugin
\* returns completes without raising for every event type, session id and
\* call id, a session.compacted event included.
C26_HooksNeverRaise ==
    [](lastOp.op \in HookNames => ~lastOp.threw)

(***************************************************************************)
(* The host's log call fails.  The plugin's log helper calls               *)
(* client.app.log and neither awaits the result nor catches anything       *)
(* (src/unnamed/part_003:67-75), so a failing call has two outcomes: the   *)
(* promise it returned is rejected later ("rejects": the helper has        *)
(* returned, the hook goes on), or the call raises at once ("throws": the  *)
(* exception leaves the helper and the hook at the log statement).         *)
(***************************************************************************)
LogOutcomes == {"rejects", "throws"}

\* event with a failing log: the first statement of the hook is a log call.
EventLogFails(type, sessionID, outcome) ==
    /\ Running(sessionID) = {}
    /\ IF isSessionCompactedEvent(type)
       THEN /\ history' = [history EXCEPT ![sessionID] = << >>]
            /\ reverted' = [reverted EXCEPT ![sessionID] = << >>]
            /\ stagedSince' = [stagedSince EXCEPT ![sessionID] = {}]
       ELSE UNCHANGED <<history, reverted, stagedSince>>
    /\ IF outcome = "throws"
       THEN /\ UNCHANGED trackerVars
            /\ lastOp' = [Op("event") EXCEPT !.kind = type, !.sessionID = sessionID,
                             !.threw = TRUE, !.log = outcome]
       ELSE IF isSessionCompactedEvent(type)
            THEN \E threw \in BOOLEAN :
                    /\ clearSession(threw)
                    /\ lastOp' = [Op("event") EXCEPT !.kind = type,
                                     !.sessionID = sessionID, !.threw = threw,
                                     !.log = outcome]
            ELSE /\ UNCHANGED trackerVars
                 /\ lastOp' = [Op("event") EXCEPT !.kind = type,
                                  !.sessionID = sessionID, !.log = outcome]
    /\ UNCHANGED <<pluginVars, nextCall, calls, outputs>>

\* tool.execute.before with a failing log: the hook logs once, after
\* setPending, and only when something matched.
ToolExecuteBeforeLogFails(sessionID, tool, filePath, outcome) ==
    /\ nextCall < MaxCalls
    /\ LET callID == CallIds[nextCall + 1] IN
       /\ HostStartsCall(sessionID, callID)
       /\ IF tool \notin FILE_TOOLS
             \/ ~(filePath.type = "string" /\ filePath.val # << >>)
          THEN /\ UNCHANGED <<trackerVars, stagedSince>>
               /\ lastOp' = [Op("tool.execute.before") EXCEPT
                                !.kind = tool, !.sessionID = sessionID,
                                !.callID = callID]
          ELSE LET relativePath == getRelativePath(projectDir, filePath.val)
                   loop == MatchLoop(1, injectedPerSession, << >>, sessionID, relativePath)
                   staged == Len(loop.matching) > 0
                   instructionText == InstructionText(loop.matching)
               IN  /\ injectedPerSession' = loop.inj
                   /\ pendingInstructions' =
                          IF staged
                          THEN setPending(pendingInstructions, callID, instructionText)
                          ELSE pendingInstructions
                   /\ UNCHANGED repoInstructionsInjected
                   /\ stagedSince' = [stagedSince EXCEPT ![sessionID] =
                          @ \cup {loop.matching[k].file : k \in 1..Len(loop.matching)}]
                   /\ lastOp' = [Op("tool.execute.before") EXCEPT
                                    !.kind = tool, !.sessionID = sessionID,
                                    !.callID = callID, !.file = relativePath,
                                    !.files = [k \in 1..Len(loop.matching) |->
                                                  loop.matching[k].file],
                                    !.text = IF staged THEN instructionText ELSE << >>,
                                    !.flag = staged,
                                    !.log = IF staged THEN outcome ELSE "",
                                    !.threw = staged /\ outcome = "throws"]
    /\ UNCHANGED pluginVars

\* tool.execute.after with a failing log: the hook logs once, after the
\* append, and only when there was text to append.  What the host makes of a
\* call whose hook raised is the host's choice.
ToolExecuteAfterLogFails(callID, outcome) ==
    /\ callID \in DOMAIN calls
    /\ calls[callID].status = "running"
    /\ LET instructionText == getPending(pendingInstructions, callID)
           out == AfterOutput(OwnOutput(callID), instructionText)
           appended == instructionText.present /\ instructionText.text # << >>
           threw == appended /\ outcome = "throws"
       IN  /\ pendingInstructions' = consumePending(pendingInstructions, callID)
           /\ outputs' = [c \in DOMAIN outputs \cup {callID} |->
                             IF c = callID THEN out ELSE outputs[c]]
           /\ lastOp' = [Op("tool.execute.after") EXCEPT
                            !.sessionID = calls[callID].sessionID,
                            !.callID = callID,
                            !.text = instructionText.text,
                            !.flag = appended,
                            !.log = IF appended THEN outcome ELSE "",
                            !.threw = threw]
           /\ \E status \in {"completed", "error"} :
                 /\ ~threw => status = "completed"
                 /\ calls' = [calls EXCEPT ![callID].status = status]
    /\ UNCHANGED <<injectedPerSession, repoInstructionsInjected, pluginVars,
                   nextCall, history, reverted, stagedSince>>

\* One session, with a log call that may fail in any hook that logs.
LogNext ==
    \/ \E tool \in Tools, fp \in FilePathArgs : ToolExecuteBefore("A", tool, fp)
    \/ \E c \in CallIdSet : ToolExecuteAfter(c)
    \/ \E c \in CallIdSet : ToolFails(c)
    \/ MessagesTransform("A")
    \/ \E type \in EventTypes : Event(type, "A")
    \/ \E i \in 1..MaxCalls : Revert("A", i)
    \/ Unrevert("A")
    \/ \E type \in EventTypes, o \in LogOutcomes : EventLogFails(type, "A", o)
    \/ \E tool \in Tools, fp \in FilePathArgs, o \in LogOutcomes :
          ToolExecuteBeforeLogFails("A", tool, fp, o)
    \/ \E c \in CallIdSet, o \in LogOutcomes : ToolExecuteAfterLogFails(c, o)

SpecLog == Init /\ [][LogNext]_vars

\* C27 (as claimed): a failing log call does not propagate: the hook that
\* made it completes without raising and has done all of its work: after a
\* session.compacted event the session has no delivery record, after
\* tool.execute.before the matched records are marked and the text is staged
\* under the call, after tool.execute.after the text is appended and consumed.
C27_LogFailureContained ==
    /\ [](lastOp.log # "" => ~lastOp.threw)
    /\ [](lastOp.log # "" /\ IsCompacted(lastOp)
            => \A k \in Records : ~Injected(lastOp.sessionID, k.file))
    /\ [](lastOp.log # "" /\ IsBefore(lastOp)
            => /\ \A i \in 1..Len(lastOp.files) : Injected(lastOp.sessionID, lastOp.files[i])
               /\ getPending(pendingInstructions, lastOp.callID).text = lastOp.text)
    /\ [](lastOp.log # "" /\ IsAfter(lastOp)
            => /\ outputs[lastOp.callID] = OwnOutput(lastOp.callID) \o <<NL, NL>> \o lastOp.text
               /\ ~getPending(pendingInstructions, lastOp.callID).present)

(***************************************************************************)
(* The repository flag.                                                    *)
(***************************************************************************)
RepoMarked(s) == hasRepoInstructions(repoInstructionsInjected, s)

\* C28: the repository flag is one-shot: hasRepoInstructions(s) is false from
\* construction until markRepoInstructionsInjected(s) is called, true after
\* that call, and stays true unless a clearSession(s) that completed removes
\* it; a second marking of a marked session leaves the tracker as it was.
C28_RepoFlagOneShot ==
    /\ \A s \in Sessions : ~RepoMarked(s)
    /\ [](lastOp.op = "hasRepoInstructions" => lastOp.flag = RepoMarked(lastOp.sessionID))
    /\ [][\A s \in Sessions :
            /\ (~RepoMarked(s) /\ RepoMarked(s)')
                 => (lastOp'.op = "markRepoInstructionsInjected" /\ lastOp'.sessionID = s)
            /\ (RepoMarked(s) /\ ~RepoMarked(s)')
                 => (lastOp'.op = "clearSession" /\ lastOp'.sessionID = s
                     /\ ~lastOp'.threw)]_vars
    /\ [][lastOp'.op = "markRepoInstructionsInjected"
            => /\ hasRepoInstructions(repoInstructionsInjected', lastOp'.sessionID)
               /\ lastOp'.flag => trackerVars' = trackerVars]_vars

\* session A is marked a second time while session B has never been marked
C28_Witness ==
    /\ lastOp.op = "markRepoInstructionsInjected"
    /\ lastOp.sessionID = "A"
    /\ lastOp.flag
    /\ RepoMarked("A")
    /\ ~RepoMarked("B")

(***************************************************************************)
(* The set getInjectedFiles returns, in the caller's hands.                *)
(***************************************************************************)
getInjectedFiles_returnsOwn == "own"

\* getInjectedFiles returns `new Set(sessionFiles ?? [])`: a Set object of
\* its own ("copy"), not the Set the tracker keeps for the session ("own").
getInjectedFiles_returns == "copy"

\* the caller holds the result of the last getInjectedFiles call
HoldsResult == lastOp.op \in {"getInjectedFiles", "result.add", "result.delete"}

\* the Set the caller holds is the one the tracker keeps for the session
ResultIsOwn ==
    /\ getInjectedFiles_returns = "own"
    /\ lastOp.sessionID \in DOMAIN injectedPerSession

\* the caller calls result.add(f)
ResultAdd(f) ==
    /\ HoldsResult
    /\ lastOp' = [lastOp EXCEPT !.op = "result.add", !.file = f,
                     !.files = SetAdd(@, f)]
    /\ injectedPerSession' =
           IF ResultIsOwn
           THEN [injectedPerSession EXCEPT ![lastOp.sessionID] = SetAdd(@, f)]
           ELSE injectedPerSession
    /\ UNCHANGED <<repoInstructionsInjected, pendingInstructions>> /\ hostUnchanged

\* the caller calls result.delete(f)
ResultDelete(f) ==
    /\ HoldsResult
    /\ lastOp' = [lastOp EXCEPT !.op = "result.delete", !.file = f,
                     !.files = SetDelete(@, f)]
    /\ injectedPerSession' =
           IF ResultIsOwn
           THEN [injectedPerSession EXCEPT ![lastOp.sessionID] = SetDelete(@, f)]
           ELSE injectedPerSession
    /\ UNCHANGED <<repoInstructionsInjected, pendingInstructions>> /\ hostUnchanged

\* The tracker's operations, and a caller that edits the sets it was handed.
CopyNext ==
    \/ \E s \in Sessions, f \in TrackerFiles : CallIsFileInjected(s, f)
    \/ \E s \in Sessions, f \in TrackerFiles : CallMarkFileInjected(s, f)
    \/ \E s \in Sessions, f \in TrackerFiles : CallClearFileMarker(s, f)
    \/ \E s \in Sessions : CallGetInjectedFiles(s)
    \/ \E presentMarkers \in SUBSET TrackerMarkers : CallSyncWithMarkers(presentMarkers)
    \/ \E s \in Sessions : CallHasRepoInstructions(s)
    \/ \E s \in Sessions : CallMarkRepoInstructionsInjected(s)
    \/ \E c \in TrackerCalls, text \in TrackerTexts : CallSetPending(c, text)
    \/ \E c \in TrackerCalls : CallGetPending(c)
    \/ \E c \in TrackerCalls : CallConsumePending(c)
    \/ \E s \in Sessions : CallClearSession(s)
    \/ \E f \in TrackerFiles : ResultAdd(f)
    \/ \E f \in TrackerFiles : ResultDelete(f)

SpecCopy == Init /\ [][CopyNext]_vars

DirectoryArgs ==
    { [type |-> "undefined", val |-> << >>],
      [type |-> "number", val |-> << >>],
      [type |-> "string", val |-> << >>],
      [type |-> "string", val |-> <<SLASH, "p", SLASH>>] }

validDirectory_any(directory) == TRUE

\* the negation of `!directory || typeof directory !== 'string'`
validDirectory(directory) == directory.type = "string" /\ directory.val # << >>

\* the plugin function has returned its hooks: the closure holds projectDir
HooksReturned == projectDir # << >>

\* The state before the host calls the plugin function.
InitStartup ==
    /\ injectedPerSession = << >>
    /\ repoInstructionsInjected = << >>
    /\ pendingInstructions = << >>
    /\ projectDir = << >>
    /\ pathInstructions = << >>
    /\ nextCall = 0
    /\ calls = << >>
    /\ outputs = << >>
    /\ history = [s \in Sessions |-> << >>]
    /\ reverted = [s \in Sessions |-> << >>]
    /\ stagedSince = [s \in Sessions |-> {}]
    /\ lastOp = NoOp

\* The host calls the plugin function, once.
CopilotInstructionsPlugin(directory) ==
    /\ lastOp.op = "none"
    /\ ~HooksReturned
    /\ IF ~validDirectory(directory)
       THEN /\ lastOp' = [Op("CopilotInstructionsPlugin") EXCEPT
                             !.kind = directory.type, !.file = directory.val,
                             !.threw = TRUE]
            /\ UNCHANGED pluginVars
       ELSE /\ projectDir' = directory.val
            /\ pathInstructions' = loadPathInstructions(directory.val)
            /\ lastOp' = [Op("CopilotInstructionsPlugin") EXCEPT
                             !.kind = directory.type, !.file = directory.val]
    /\ UNCHANGED <<trackerVars, hostVars, stagedSince>>

\* Construction, then the hooks of one session once they have been returned.
StartupNext ==
    \/ \E directory \in DirectoryArgs : CopilotInstructionsPlugin(directory)
    \/ \E system \in HostLists : HooksReturned /\ SystemTransform(system)
    \/ \E context \in HostLists : HooksReturned /\ SessionCompacting(context)
    \/ \E tool \in Tools, fp \in FilePathArgs :
          HooksReturned /\ ToolExecuteBefore("A", tool, fp)
    \/ \E c \in CallIdSet : HooksReturned /\ ToolExecuteAfter(c)
    \/ \E c \in CallIdSet : HooksReturned /\ ToolFails(c)
    \/ HooksReturned /\ MessagesTransform("A")
    \/ \E type \in EventTypes : HooksReturned /\ Event(type, "A")
    \/ \E i \in 1..MaxCalls : HooksReturned /\ Revert("A", i)
    \/ HooksReturned /\ Unrevert("A")

SpecStartup == InitStartup /\ [][StartupNext]_vars

\* C30: configuration errors are raised eagerly: called with a directory that
\* is missing, not a string or empty, the plugin function raises and returns
\* no hooks; every hook invocation therefore runs with a project directory
\* that is a non-empty string, and the only error a hook raises is the
\* session.compacted event's, never the configuration error.
C30_ConfigErrorIsEager ==
    /\ [][(lastOp'.op = "CopilotInstructionsPlugin"
           /\ (lastOp'.kind # "string" \/ lastOp'.file = << >>))
             => (lastOp'.threw /\ projectDir' = << >> /\ UNCHANGED pluginVars)]_vars
    /\ [][(lastOp'.op = "CopilotInstructionsPlugin"
           /\ lastOp'.kind = "string" /\ lastOp'.file # << >>)
             => (~lastOp'.threw /\ projectDir' = lastOp'.file)]_vars
    /\ [](lastOp.op \in HookNames => projectDir # << >>)
    /\ [](lastOp.op \in HookNames /\ lastOp.threw => IsCompacted(lastOp))

\* the plugin function was called without a directory and raised; no hook exists
C30_Witness ==
    /\ lastOp.op = "CopilotInstructionsPlugin"
    /\ lastOp.kind = "undefined"
    /\ lastOp.threw
    /\ ~HooksReturned

(***************************************************************************)
(* The loader's functions on their own (src/src/matcher.ts,                *)
(* src/unnamed/part_002, src/dist/loader.js).  A pattern is a string; in   *)
(* this part a string is a sequence of atoms in which "," and " " are      *)
(* atoms of their own, so that splitting and trimming have something to    *)
(* do.  The applyTo value of a frontmatter is undefined, a string or an    *)
(* array of strings.                                                       *)
(***************************************************************************)
COMMA == ","

SPACE == " "

MaxAtoms == 4

PatternAtoms == {"**/*.ts", "src/**", COMMA, SPACE}

PatternStrings == UNION {[1..n -> PatternAtoms] : n \in 0..MaxAtoms}

\* the items an applyTo array may hold
ArrayItems == { <<"**/*.ts">>, <<"src/**", COMMA, SPACE, "**/*.ts">>, << >>, <<SPACE>> }

ApplyToValues ==
    { [type |-> "undefined", val |-> << >>] }
    \cup { [type |-> "string", val |-> s] : s \in PatternStrings }
    \cup { [type |-> "array", val |-> a] :
              a \in UNION {[1..n -> ArrayItems] : n \in 0..2} }

\* String.prototype.split(',')
RECURSIVE splitComma(_, _)
splitComma(s, piece) ==
    IF s = << >> THEN <<piece>>
    ELSE IF Head(s) = COMMA THEN <<piece>> \o splitComma(Tail(s), << >>)
    ELSE splitComma(Tail(s), Append(piece, Head(s)))

RECURSIVE trimStart(_)
trimStart(s) ==
    IF s # << >> /\ Head(s) = SPACE THEN trimStart(Tail(s)) ELSE s

RECURSIVE trimTail(_)
trimTail(s) ==
    IF s # << >> /\ s[Len(s)] = SPACE THEN trimTail(SubSeq(s, 1, Len(s) - 1)) ELSE s

trim_identity(s) == s

\* String.prototype.trim()
trim(s) == trimTail(trimStart(s))

normalizePatterns(applyTo) ==
    IF applyTo.type = "undefined" THEN << >>
    ELSE IF applyTo.type = "array" THEN applyTo.val
    ELSE LET pieces == splitComma(applyTo.val, << >>)
             trimmed == [k \in 1..Len(pieces) |-> trim(pieces[k])]
         IN  SelectSeq(trimmed, LAMBDA pattern : Len(pattern) > 0)

CallNormalizePatterns(applyTo) ==
    /\ lastOp.op = "none"
    /\ lastOp' = [Op("normalizePatterns") EXCEPT !.input = applyTo,
                     !.list = normalizePatterns(applyTo)]
    /\ UNCHANGED <<trackerVars, pluginVars, hostVars, stagedSince>>

\* parseFrontmatter keeps attrs.applyTo when it is a string or an array and
\* leaves frontmatter.applyTo undefined for any other value
frontmatterApplyTo(raw) ==
    IF raw.type \in {"string", "array"} THEN raw
    ELSE [type |-> "undefined", val |-> << >>]

\* createMatcher(patterns) hands the list to picomatch, which raises TypeError
\* ("Expected pattern to be a non-empty string") for an empty pattern
createMatcherThrows(patterns) ==
    \E k \in 1..Len(patterns) : patterns[k] = << >>

\* attrs.applyTo of the files in the model's instructions directories
FileApplyTo ==
    { [type |-> "undefined", val |-> << >>],
      [type |-> "number", val |-> << >>],
      [type |-> "string", val |-> <<"**/*.ts">>],
      [type |-> "string", val |-> <<"**/*.ts", COMMA, SPACE, "src/**">>],
      [type |-> "string", val |-> <<SPACE, COMMA>>],
      [type |-> "array", val |-> << >>],
      [type |-> "array", val |-> << <<"**/*.ts">> >>],
      [type |-> "array", val |-> << << >> >>] }

\* one entry of .github/instructions: readable is false for an entry that
\* readFileSync cannot read (no permission, a directory)
FileEntries == [name : DirNames, readable : BOOLEAN, applyTo : FileApplyTo]

\* .github/instructions: missing, or a listing of entries with distinct names
InstructionTrees ==
    { [exists |-> FALSE, files |-> << >>] }
    \cup { [exists |-> TRUE, files |-> l] :
              l \in {l \in UNION {[1..n -> FileEntries] : n \in 0..MaxFiles} :
                        \A i, j \in 1..Len(l) : i # j => l[i].name # l[j].name} }

\* the loop of loadPathInstructions over what readdirSync returned
RECURSIVE loadLoop(_, _, _)
loadLoop(directory, files, result) ==
    IF files = << >> THEN [threw |-> FALSE, result |-> result]
    ELSE LET entry == Head(files)
             patterns == normalizePatterns(frontmatterApplyTo(entry.applyTo))
         IN  IF ~endsWithInstructionsMd(entry.name)
             THEN loadLoop(directory, Tail(files), result)
             ELSE IF ~entry.readable
             THEN loadLoop(directory, Tail(files), result)
             ELSE IF Len(patterns) = 0
             THEN loadLoop(directory, Tail(files), result)
             ELSE IF createMatcherThrows(patterns)
             THEN [threw |-> TRUE, result |-> << >>]
             ELSE loadLoop(directory, Tail(files),
                           Append(result,
                                  PathInstruction(directory, entry.name, patterns,
                                                  <<"Use strict types.", NL>>)))

\* loadPathInstructions(directory) over a given instructions directory
loadPathInstructionsOf(directory, tree) ==
    IF ~tree.exists THEN [threw |-> FALSE, result |-> << >>]
    ELSE loadLoop(directory, tree.files, << >>)

CallLoadPathInstructions(tree) ==
    /\ lastOp.op = "none"
    /\ LET loaded == loadPathInstructionsOf(projectDir, tree) IN
       lastOp' = [Op("loadPathInstructions") EXCEPT !.input = tree,
                     !.list = loaded.result, !.threw = loaded.threw]
    /\ UNCHANGED <<trackerVars, pluginVars, hostVars, stagedSince>>

CallLoadRepoInstructions(directory) ==
    /\ lastOp.op = "none"
    /\ lastOp' = [Op("loadRepoInstructions") EXCEPT !.file = directory,
                     !.flag = loadRepoInstructions(directory).present,
                     !.text = loadRepoInstructions(directory).text]
    /\ UNCHANGED <<trackerVars, pluginVars, hostVars, stagedSince>>

\* Each function is applied once, to any of its inputs.
LoaderNext ==
    \/ \E applyTo \in ApplyToValues : CallNormalizePatterns(applyTo)
    \/ \E tree \in InstructionTrees : CallLoadPathInstructions(tree)
    \/ \E directory \in PromptDirs : CallLoadRepoInstructions(directory)

SpecLoader == Init /\ [][LoaderNext]_vars

\* the entry is one the claim says is loaded
Qualifies(entry) ==
    /\ endsWithInstructionsMd(entry.name)
    /\ entry.readable
    /\ Len(normalizePatterns(frontmatterApplyTo(entry.applyTo))) > 0

\* C31 (as claimed): loading is tolerant and selective: loadPathInstructions
\* and loadRepoInstructions never raise; loadPathInstructions returns, in
\* listing order, one record for exactly the entries whose name ends in
\* .instructions.md, that are readable and whose normalized applyTo list is
\* non-empty, and the empty list for a missing directory; loadRepoInstructions
\* returns null when the file is missing.
C31_LoadingTolerantSelective ==
    /\ lastOp.op \in {"loadPathInstructions", "loadRepoInstructions"} => ~lastOp.threw
    /\ lastOp.op = "loadPathInstructions" =>
          LET wanted == SelectSeq(lastOp.input.files, Qualifies) IN
          /\ Len(lastOp.list) = Len(wanted)
          /\ \A k \in 1..Len(wanted) :
                lastOp.list[k].file = instructionsDir(projectDir) \o <<SLASH>> \o wanted[k].name
          /\ ~lastOp.input.exists => lastOp.list = << >>
    /\ (lastOp.op = "loadRepoInstructions" /\ Segments(lastOp.file) = <<"q">>)
          => ~lastOp.flag

\* positions of the commas of s, in order, between the sentinels 0 and Len(s)+1
CommaCuts(s) ==
    <<0>> \o SelectSeq([i \in 1..Len(s) |-> IF s[i] = COMMA THEN i ELSE 0],
                       LAMBDA i : i > 0) \o <<Len(s) + 1>>

\* the piece of s strictly between positions a and b, without the spaces at
\* its two ends
PieceBetween(s, a, b) ==
    LET inner == {i \in (a + 1)..(b - 1) : s[i] # SPACE} IN
    IF inner = {} THEN << >>
    ELSE SubSeq(s, CHOOSE i \in inner : \A j \in inner : i <= j,
                   CHOOSE i \in inner : \A j \in inner : i >= j)

\* the pieces of s between consecutive commas, trimmed, the empty ones dropped
ExpectedPatterns(s) ==
    LET cuts == CommaCuts(s) IN
    SelectSeq([k \in 1..(Len(cuts) - 1) |-> PieceBetween(s, cuts[k], cuts[k + 1])],
              LAMBDA piece : piece # << >>)

\* C32: normalizePatterns gives the empty list for undefined, the array itself
\* for an array, and for a string the pieces between its commas, each without
\* the spaces at its ends, the empty pieces dropped, in the order of the string.
C32_NormalizePatterns ==
    lastOp.op = "normalizePatterns" =>
       /\ lastOp.input.type = "undefined" => lastOp.list = << >>
       /\ lastOp.input.type = "array" => lastOp.list = lastOp.input.val
       /\ lastOp.input.type = "string" => lastOp.list = ExpectedPatterns(lastOp.input.val)

\* a string with two patterns in order, a comma, and a space to trim
C32_Witness ==
    /\ lastOp.op = "normalizePatterns"
    /\ lastOp.input = [type |-> "string", val |-> <<"**/*.ts", SPACE, COMMA, "src/**">>]
    /\ lastOp.list = << <<"**/*.ts">>, <<"src/**">> >>

(***************************************************************************)
(* Sessions against each other, through the hooks.                         *)
(***************************************************************************)
\* the records tool.execute.before would stage for session s on a path, given
\* the ledger inj
WouldStage(inj, s, relativePath) ==
    MatchLoop(1, inj, << >>, s, relativePath).matching

\* the paths of the model's file arguments, as the hook resolves them
RelativePaths ==
    {getRelativePath(projectDir, fp.val) :
        fp \in {a \in FilePathArgs : a.type = "string" /\ a.val # << >>}}

\* the text staged under the running calls of session s
StagedFor(pend, s) ==
    [c \in {c \in DOMAIN calls : calls[c].sessionID = s} |-> getPending(pend, c)]

\* C33 (as claimed): end-to-end session noninterference, in step form: a hook
\* invoked for a session other than B (a tool call, a session.compacted event,
\* a history scan) changes neither what B's next tool.execute.before would
\* stage on any path nor the text staged for B's calls, so that B's appended
\* blocks depend on B's own invocations and history only.
C33_SessionNoninterference ==
    [][lastOp'.op \in HookNames =>
          \A B \in Sessions \ {lastOp'.sessionID} :
             /\ \A p \in RelativePaths :
                   WouldStage(injectedPerSession', B, p)
                     = WouldStage(injectedPerSession, B, p)
             /\ StagedFor(pendingInstructions', B) = StagedFor(pendingInstructions, B)]_vars

(***************************************************************************)
(* Delivery records and the text behind them.                              *)
(***************************************************************************)
CallsOf(s) == {c \in DOMAIN calls : calls[c].sessionID = s}

\* k's block is staged under call c
BlockStaged(pend, c, k) ==
    getPending(pend, c).present /\ Contains(getPending(pend, c).text, FormatInstruction(k))

\* k's block is in the output of call c
BlockAppended(outs, c, k) ==
    c \in DOMAIN outs /\ Contains(outs[c], FormatInstruction(k))

\* C34: every delivery record is backed by text: a record k delivered in
\* session s has its block staged under a call of s or appended to the output
\* of a call of s; when the ledger of s gains k the block is staged under the
\* call being started, and a staged block leaves the staging map only by being
\* appended to the output of its own call, so the text behind a record was
\* staged, and appended if at all, after the ledger last lacked k.
C34_RecordsBackedByText ==
    /\ [](\A s \in Sessions, k \in Records :
            Injected(s, k.file) =>
               \E c \in CallsOf(s) :
                  \/ BlockStaged(pendingInstructions, c, k)
                  \/ BlockAppended(outputs, c, k))
    /\ [][\A s \in Sessions, k \in Records :
            (injectedPerSession' # injectedPerSession
             /\ ~Injected(s, k.file) /\ isFileInjected(injectedPerSession', s, k.file))
               => /\ IsBefore(lastOp') /\ lastOp'.sessionID = s
                  /\ ~BlockStaged(pendingInstructions, lastOp'.callID, k)
                  /\ BlockStaged(pendingInstructions', lastOp'.callID, k)]_vars
    /\ [][\A c \in DOMAIN calls, k \in Records :
            (pendingInstructions' # pendingInstructions
             /\ BlockStaged(pendingInstructions, c, k)
             /\ ~BlockStaged(pendingInstructions', c, k))
               => /\ IsAfter(lastOp') /\ lastOp'.callID = c
                  /\ BlockAppended(outputs', c, k)]_vars

\* session A holds a record whose block has left the staging map and stands in
\* the output of one of A's calls, while session B has neither record nor text
C34_Witness ==
    \E k \in Records :
       /\ Injected("A", k.file)
       /\ \A c \in CallsOf("A") : ~BlockStaged(pendingInstructions, c, k)
       /\ \E c \in CallsOf("A") : BlockAppended(outputs, c, k)
       /\ ~Injected("B", k.file)
       /\ CallsOf("B") # {}

\* C35: staged text never crosses calls: on every staging map the program
\* reaches, setPending and consumePending on one call id leave getPending of
\* every other call id as it was; an entry appears under c only by the
\* tool.execute.before of c, holds the text that hook staged and keeps it
\* while it stays; and what tool.execute.after appends to the output of c is
\* the text staged under c.
C35_StagedTextStaysWithItsCall ==
    /\ [](\A c1 \in CallIdSet : \A c2 \in CallIdSet \ {c1} :
            /\ getPending(consumePending(pendingInstructions, c1), c2) = Staged(c2)
            /\ \A text \in TrackerTexts :
                  getPending(setPending(pendingInstructions, c1, text), c2) = Staged(c2))
    /\ [][(IsBefore(lastOp') \/ IsAfter(lastOp')) =>
             \A c2 \in CallIdSet \ {lastOp'.callID} :
                getPending(pendingInstructions', c2) = Staged(c2)]_vars
    /\ [][\A c \in CallIdSet :
             getPending(pendingInstructions', c).present =>
                IF Staged(c).present
                THEN getPending(pendingInstructions', c) = Staged(c)
                ELSE /\ IsBefore(lastOp') /\ lastOp'.callID = c
                     /\ getPending(pendingInstructions', c).text = lastOp'.text]_vars
    /\ [][IsAfter(lastOp') =>
             outputs'[lastOp'.callID] =
                IF Staged(lastOp'.callID).present
                THEN OwnOutput(lastOp'.callID) \o <<NL, NL>> \o Staged(lastOp'.callID).text
                ELSE OwnOutput(lastOp'.callID)]_vars

\* tool.execute.after appended the text of its call while another call holds
\* a different staged text
C35_Witness ==
    /\ IsAfter(lastOp)
    /\ lastOp.flag
    /\ \E c2 \in CallIdSet \ {lastOp.callID} :
          /\ Staged(c2).present
          /\ Staged(c2).text # lastOp.text
          /\ ~Contains(outputs[lastOp.callID], Staged(c2).text)

C37_ResyncAlgebra ==
    /\ [](\A M1 \in SUBSET TrackerMarkers, M2 \in SUBSET TrackerMarkers :
            LET both == syncWithMarkers(injectedPerSession, M1 \cap M2) IN
            /\ syncWithMarkers(syncWithMarkers(injectedPerSession, M1), M1)
                 = syncWithMarkers(injectedPerSession, M1)
            /\ syncWithMarkers(syncWithMarkers(injectedPerSession, M1), M2) = both
            /\ syncWithMarkers(syncWithMarkers(injectedPerSession, M2), M1) = both)
    /\ [][(lastOp.op = "syncWithMarkers" /\ lastOp'.op = "syncWithMarkers"
           /\ lastOp.markers \subseteq lastOp'.markers)
             => trackerVars' = trackerVars]_vars

\* a resync evicted one file of a session and kept another, while a second
\* session kept a file too
C37_Witness ==
    /\ lastOp.op = "syncWithMarkers"
    /\ lastOp.flag
    /\ lastOp.markers # {}
    /\ \E s \in Sessions : \E f, g \in TrackerFiles :
          /\ Injected(s, f)
          /\ ~Injected(s, g)
          /\ \E t \in Sessions \ {s} : Injected(t, f)

(***************************************************************************)
(* Path resolution: the project directory with and without a trailing      *)
(* slash, and file arguments given absolute or relative to it.             *)
(***************************************************************************)
PathDirs == { <<SLASH, "p", SLASH>>, <<SLASH, "p">> }

\* project-relative paths of files of the project
ProjectFiles == { <<"src", SLASH, "a.ts">>, <<"lib", SLASH, "x.ts">>, <<"README.md">> }

\* the absolute path of a file of the project
AbsoluteOf(rel) == <<SLASH, "p", SLASH>> \o rel

\* args.filePath: each project file by both of its paths, a file outside the
\* project, and the arguments that are no usable string
PathArgs ==
    { [type |-> "string", val |-> rel] : rel \in ProjectFiles }
    \cup { [type |-> "string", val |-> AbsoluteOf(rel)] : rel \in ProjectFiles }
    \cup { [type |-> "string", val |-> <<SLASH, "q", SLASH, "src", SLASH, "a.ts">>],
           [type |-> "string", val |-> << >>],
           [type |-> "undefined", val |-> << >>] }

InitPaths ==
    /\ injectedPerSession = << >>
    /\ repoInstructionsInjected = << >>
    /\ pendingInstructions = << >>
    /\ projectDir \in PathDirs
    /\ pathInstructions = loadPathInstructions(projectDir)
    /\ nextCall = 0
    /\ calls = << >>
    /\ outputs = << >>
    /\ history = [s \in Sessions |-> << >>]
    /\ reverted = [s \in Sessions |-> << >>]
    /\ stagedSince = [s \in Sessions |-> {}]
    /\ lastOp = NoOp

PathsNext ==
    \/ \E tool \in Tools, fp \in PathArgs : ToolExecuteBefore("A", tool, fp)
    \/ \E c \in CallIdSet : ToolExecuteAfter(c)
    \/ \E c \in CallIdSet : ToolFails(c)
    \/ MessagesTransform("A")
    \/ \E type \in EventTypes : Event(type, "A")
    \/ \E i \in 1..MaxCalls : Revert("A", i)
    \/ Unrevert("A")

SpecPaths == InitPaths /\ [][PathsNext]_vars

====
